---------------------------- MODULE Spec2Model ----------------------------
(***************************************************************************)
(* Model of the jiracli-mcp server (src/server.js): the JiraServer tool    *)
(* handlers and the analytics helpers they call.                           *)
(*                                                                         *)
(* The server is a request/response loop.  A tool call is taken when the   *)
(* server is "ready"; the handler runs to its result ("done"); Return      *)
(* hands the result to the caller and the server is ready again.  The      *)
(* provider (jcli, run by executeJCLI) is the environment: every fetch     *)
(* either fails with a cause or returns data drawn from a bounded set.     *)
(*                                                                         *)
(* Numbers: JavaScript doubles are modelled by exact rationals             *)
(* [num, den] where the inputs are such that both give the same number;    *)
(* Math.round is floor(x + 1/2).  The completion percentages of a sprint,  *)
(* a release and a component are computed in double arithmetic             *)
(* (RoundedPercent, Percent).                                              *)
(***************************************************************************)
EXTENDS Integers, Sequences, FiniteSets, TLC

VARIABLES
    config,   \* this.defaultProject, this.configuredBoards, ... (constructor)
    pc,       \* position of the request loop / of the running handler
    call,     \* the tool call being served: name, arguments, provider data
    result,   \* the handler's return value ({content, isError})
    stages,   \* get_triage_summary: the stages started so far, with outcome
    locals    \* get_triage_summary: issueData, duplicateData, expertAnalysis

vars == <<config, pc, call, result, stages, locals>>

(***************************************************************************)
(* Bounds of the model.                                                    *)
(***************************************************************************)
MaxWords == 2        \* words per text in the similarity specification
MaxPieces == 4       \* words and separators per text given to extractKeywords
MaxPool == 3         \* candidates returned by the duplicate search
MaxIssues == 2       \* issues returned to the component health analysis
MaxOpen == 6         \* open issues of a release version
MaxAll == 10         \* all issues of a release version
MaxBlocked == 4      \* blocked issues of a release version
MaxSprints == 3      \* sprints returned for a board
MaxExpertIssues == 2 \* issues returned to the component expert lookup
MaxSprintIssues == 40 \* issues of one sprint

(***************************************************************************)
(* Generic helpers.                                                        *)
(***************************************************************************)
SeqsUpTo(S, n) == UNION {[1..k -> S] : k \in 0..n}

Range(s) == {s[i] : i \in 1..Len(s)}

RECURSIVE SumSeq(_)
SumSeq(s) == IF s = <<>> THEN 0 ELSE Head(s) + SumSeq(Tail(s))

\* A JavaScript number that is a ratio of two integers, den > 0.
Rat(n, d) == [num |-> n, den |-> d]
RatLess(a, b) == a.num * b.den < b.num * a.den
RatEq(a, b) == a.num * b.den = b.num * a.den

\* Math.round(n / d), d > 0: the integer nearest to n/d, halves going up.
MathRound(n, d) == (2 * n + d) \div (2 * d)

Max(a, b) == IF a >= b THEN a ELSE b
Min(a, b) == IF a <= b THEN a ELSE b

(***************************************************************************)
(* IEEE-754 double arithmetic for Math.round((n / d) * 100), 0 <= n <= d.  *)
(* A double is kept as the bits of its significand (most significant       *)
(* first) and the number of those bits that follow the binary point:       *)
(* value = bits / 2^scale.  Division and multiplication round to 53        *)
(* significant bits, to nearest, ties to even.  Long division and          *)
(* multiplication go by limbs of 8 bits.                                   *)
(***************************************************************************)
SignificandBits == 53
LimbBits == 8
Limb == 256
QuotientLimbs == 7   \* 56 bits: the significand and 3 more

\* the 8 bits of a limb, and the limb of 8 bits
BitsOfLimb(v) == [i \in 1..LimbBits |-> (v \div 2^(LimbBits - i)) % 2]
LimbOfBits(bits) ==
    SumSeq([i \in 1..LimbBits |-> bits[i] * 2^(LimbBits - i)])

\* the least number of doublings after which r/t reaches 1/2, 0 < r < t
RECURSIVE LeadingZeros(_, _)
LeadingZeros(r, t) == IF 2 * r >= t THEN 0 ELSE 1 + LeadingZeros(2 * r, t)

\* the next n limbs of the binary digits of r/t, 0 <= r < t
RECURSIVE QuotientDigits(_, _, _)
QuotientDigits(r, t, n) ==
    IF n = 0 THEN <<>>
    ELSE BitsOfLimb((r * Limb) \div t) \o QuotientDigits((r * Limb) % t, t, n - 1)

\* the remainder that n limbs of digits of r/t leave
RECURSIVE RemainderAfter(_, _, _)
RemainderAfter(r, t, n) == IF n = 0 THEN r ELSE RemainderAfter((r * Limb) % t, t, n - 1)

\* bits without its leading zeros
Normalized(bits) ==
    LET ones == {i \in 1..Len(bits) : bits[i] = 1}
    IN IF ones = {} THEN <<>>
       ELSE SubSeq(bits, CHOOSE i \in ones : \A j \in ones : i <= j, Len(bits))

\* bits + 1 (one bit longer when every bit is 1)
Increment(bits) ==
    LET zeros == {i \in 1..Len(bits) : bits[i] = 0}
        last == CHOOSE i \in zeros : \A j \in zeros : i >= j
    IN IF zeros = {} THEN <<1>> \o [i \in 1..Len(bits) |-> 0]
       ELSE [i \in 1..Len(bits) |-> IF i < last THEN bits[i] ELSE IF i = last THEN 1 ELSE 0]

\* the limbs of bits, most significant first
Limbs(bits) ==
    LET count == (Len(bits) + LimbBits - 1) \div LimbBits
        padded == [i \in 1..(count * LimbBits - Len(bits)) |-> 0] \o bits
    IN [k \in 1..count |-> LimbOfBits(SubSeq(padded, (k - 1) * LimbBits + 1, k * LimbBits))]

\* limbs * k + carry, k < 256
RECURSIVE TimesLimbs(_, _, _)
TimesLimbs(limbs, k, carry) ==
    IF limbs = <<>> THEN <<carry>>
    ELSE LET v == limbs[Len(limbs)] * k + carry
         IN TimesLimbs(SubSeq(limbs, 1, Len(limbs) - 1), k, v \div Limb) \o <<v % Limb>>

RECURSIVE BitsOfLimbs(_)
BitsOfLimbs(limbs) ==
    IF limbs = <<>> THEN <<>> ELSE BitsOfLimb(Head(limbs)) \o BitsOfLimbs(Tail(limbs))

Times(bits, k) == Normalized(BitsOfLimbs(TimesLimbs(Limbs(bits), k, 0)))

\* A significand whose first bit is 1, with `sticky` saying that the exact
\* value has further non-zero bits, rounded to SignificandBits bits.
RoundToDouble(bits, scale, sticky) ==
    IF Len(bits) <= SignificandBits THEN [bits |-> bits, scale |-> scale]
    ELSE LET kept == SubSeq(bits, 1, SignificandBits)
             dropped == SubSeq(bits, SignificandBits + 1, Len(bits))
             more == sticky \/ \E i \in 2..Len(dropped) : dropped[i] = 1
             up == dropped[1] = 1 /\ (more \/ kept[SignificandBits] = 1)
         IN [bits |-> IF up THEN Increment(kept) ELSE kept,
             scale |-> scale - Len(dropped)]

\* n / d as a double, 0 < n < d: the digits from the first 1 on
Quotient(n, d) ==
    LET zeros == LeadingZeros(n, d)
        first == (n * 2^zeros) % d
    IN RoundToDouble(QuotientDigits(first, d, QuotientLimbs),
                     zeros + QuotientLimbs * LimbBits,
                     RemainderAfter(first, d, QuotientLimbs) # 0)

\* x * 100 as a double
TimesHundred(x) == RoundToDouble(Times(x.bits, 100), x.scale, FALSE)

\* Math.round(x) = floor(x + 1/2), 0 <= x < 256
RoundDouble(x) ==
    LET whole == Len(x.bits) - x.scale
    IN IF whole < 0 THEN 0
       ELSE LimbOfBits([i \in 1..(LimbBits - whole) |-> 0] \o SubSeq(x.bits, 1, whole))
                + (IF x.scale > 0 THEN x.bits[whole + 1] ELSE 0)

\* Math.round((n / d) * 100), 0 <= n <= d, d > 0
RoundedPercent(n, d) ==
    IF n = 0 THEN 0
    ELSE IF n = d THEN 100
    ELSE RoundDouble(TimesHundred(Quotient(n, d)))

\* Math.round((n / d) * 100) for every 0 <= n <= d <= MaxSprintIssues,
\* worked out once.
RoundedPercents ==
    [total \in 1..MaxSprintIssues |-> [done \in 0..total |-> RoundedPercent(done, total)]]

\* Math.round((n / d) * 100) for d > 0 and n <= d. A negative n arises
\* with d <= MaxAll only, where the double product is exact at every half.
Percent(n, d) == IF n >= 0 THEN RoundedPercents[d][n] ELSE MathRound(100 * n, d)

(***************************************************************************)
(* Results of a handler: {content: [{type: 'text', text}], isError}.       *)
(* text is either JSON.stringify(report) (json = TRUE, report kept in      *)
(* data) or an error line `Error <doing op>: <error.message>`, kept as the *)
(* operation it names and the error it carries.                            *)
(***************************************************************************)
NoCall == [tool |-> "none"]
NoResult == [kind |-> "none"]
NoLocals == [kind |-> "none"]

Success(report) == [kind |-> "report", isError |-> FALSE, json |-> TRUE, data |-> report]
PlainText(what) == [kind |-> "text", isError |-> FALSE, json |-> FALSE, data |-> [text |-> what]]
ErrorJSON(what) == [kind |-> "errorReport", isError |-> TRUE, json |-> TRUE, data |-> [error |-> what]]
ErrorText(prefix, err) ==
    [kind |-> "errorText", isError |-> TRUE, json |-> FALSE,
     data |-> [prefix |-> prefix, error |-> err]]

\* A handler either returns a result or throws; the CallTool dispatcher
\* catches what a handler throws: `Error executing <tool>: <message>`.
Thrown(err) == [kind |-> "thrown", error |-> err]
Dispatch(tool, outcome) ==
    IF outcome.kind = "thrown"
    THEN ErrorText(<<"Error executing", tool>>, outcome.error)
    ELSE outcome

\* executeJCLI: the command fails (`JCLI execution failed: <cause>`) or
\* returns stdout.
ProviderCauses == {"auth", "network"}
JCLIError(cause) == [type |-> "Error", message |-> "JCLI execution failed", cause |-> cause]
FetchFailed(cause) == [ok |-> FALSE, error |-> JCLIError(cause)]
FetchOk(payload) == [ok |-> TRUE, data |-> payload]
FailedFetches == {FetchFailed(c) : c \in ProviderCauses}

ReferenceError(name) == [type |-> "ReferenceError", message |-> name, cause |-> "none"]
SyntaxError == [type |-> "SyntaxError", message |-> "Unexpected token", cause |-> "none"]

(***************************************************************************)
(* Text: a JavaScript string is a sequence of one-character strings; an    *)
(* absent (null / undefined) text is NullText.                             *)
(***************************************************************************)
Str(chars) == [isNull |-> FALSE, chars |-> chars]
NullText == [isNull |-> TRUE, chars |-> <<>>]
Falsy(text) == text.isNull \/ text.chars = <<>>

UpperCase == <<"A","B","C","D","E","F","G","H","I","J","K","L","M",
               "N","O","P","Q","R","S","T","U","V","W","X","Y","Z">>
LowerCase == <<"a","b","c","d","e","f","g","h","i","j","k","l","m",
               "n","o","p","q","r","s","t","u","v","w","x","y","z">>
Digits == {"0","1","2","3","4","5","6","7","8","9"}

Letters == {UpperCase[k] : k \in 1..26} \cup {LowerCase[k] : k \in 1..26}
WordChars == Letters \cup Digits \cup {"_"}
Spaces == {" ", "\t", "\n"}
Punctuation == {"-", "!", ".", ",", ":"}
Chars == WordChars \cup Spaces \cup Punctuation

LowerOf ==
    [c \in Chars |->
        IF \E k \in 1..26 : UpperCase[k] = c
        THEN LowerCase[CHOOSE k \in 1..26 : UpperCase[k] = c]
        ELSE c]

toLowerCase(chars) == [i \in 1..Len(chars) |-> LowerOf[chars[i]]]

IsWordChar(c) == c \in WordChars
IsSpace(c) == c \in Spaces

\* .replace(/[^\w\s-]/g, ' ')
StripPunctuation(chars) ==
    [i \in 1..Len(chars) |->
        IF IsWordChar(chars[i]) \/ IsSpace(chars[i]) \/ chars[i] = "-"
        THEN chars[i] ELSE " "]

\* .split(/\s+/): the pieces between maximal runs of whitespace (a leading
\* or trailing run leaves an empty piece, as in JavaScript).
RECURSIVE SplitFrom(_, _, _)
SplitFrom(chars, i, cur) ==
    IF i > Len(chars) THEN <<cur>>
    ELSE IF IsSpace(chars[i])
         THEN IF i > 1 /\ IsSpace(chars[i - 1])
              THEN SplitFrom(chars, i + 1, cur)
              ELSE <<cur>> \o SplitFrom(chars, i + 1, <<>>)
         ELSE SplitFrom(chars, i + 1, Append(cur, chars[i]))

SplitWhitespace(chars) == SplitFrom(chars, 1, <<>>)

\* [...new Set(words)]: first occurrences, in order.
RECURSIVE Unique(_)
Unique(s) ==
    IF s = <<>> THEN <<>>
    ELSE LET init == Unique(SubSeq(s, 1, Len(s) - 1))
             last == s[Len(s)]
         IN IF last \in Range(init) THEN init ELSE Append(init, last)

MinKeywordLen == 3

stopWords ==
    { <<"t","h","e">>, <<"a">>, <<"a","n">>, <<"a","n","d">>, <<"o","r">>,
      <<"b","u","t">>, <<"i","n">>, <<"o","n">>, <<"a","t">>, <<"t","o">>,
      <<"f","o","r">>, <<"o","f">>, <<"w","i","t","h">>, <<"b","y">> }

\* The filter with word.length >= 3 in place of word.length > 3.
IsKeywordOfThree(word) == Len(word) >= MinKeywordLen /\ word \notin stopWords

IsKeyword(word) == Len(word) > MinKeywordLen /\ word \notin stopWords

extractKeywords(text) ==
    IF Falsy(text) THEN <<>>
    ELSE Unique(SelectSeq(SplitWhitespace(StripPunctuation(toLowerCase(text.chars))),
                          IsKeyword))

SimilarityDropsUnion(text1, text2) ==
    IF Falsy(text1) \/ Falsy(text2) THEN Rat(0, 1)
    ELSE LET words1 == Range(extractKeywords(text1))
             words2 == Range(extractKeywords(text2))
             intersection == {x \in words1 : x \in words2}
         IN IF Cardinality(words1) > 0
            THEN Rat(Cardinality(intersection), Cardinality(words1))
            ELSE Rat(0, 1)

calculateSimilarity(text1, text2) ==
    IF Falsy(text1) \/ Falsy(text2) THEN Rat(0, 1)
    ELSE LET words1 == Range(extractKeywords(text1))
             words2 == Range(extractKeywords(text2))
             intersection == {x \in words1 : x \in words2}
             union == words1 \cup words2
         IN IF Cardinality(union) > 0
            THEN Rat(Cardinality(intersection), Cardinality(union))
            ELSE Rat(0, 1)

(***************************************************************************)
(* Texts used as inputs.                                                   *)
(***************************************************************************)
wLogin == <<"L","o","g","i","n">>
wlogin == <<"l","o","g","i","n">>
wfails == <<"f","a","i","l","s">>
wafter == <<"a","f","t","e","r">>
wtimeout == <<"t","i","m","e","o","u","t">>
wsession == <<"s","e","s","s","i","o","n">>
wExport == <<"E","x","p","o","r","t">>
wbutton == <<"b","u","t","t","o","n">>
wmissing == <<"m","i","s","s","i","n","g">>
wwith == <<"w","i","t","h">>
wtimeOutBang == <<"t","i","m","e","-","o","u","t","!">>
wlogDotFail == <<"l","o","g",".","f","a","i","l">>

\* words.join(' ')
RECURSIVE JoinWords(_)
JoinWords(ws) ==
    IF ws = <<>> THEN <<>>
    ELSE IF Len(ws) = 1 THEN ws[1]
    ELSE ws[1] \o <<" ">> \o JoinWords(Tail(ws))

Sentence(ws) == Str(JoinWords(ws))

Vocabulary == {wLogin, wlogin, wfails, wwith, wtimeOutBang, wlogDotFail}
Texts == {Sentence(ws) : ws \in SeqsUpTo(Vocabulary, MaxWords)} \cup {NullText}

(***************************************************************************)
(* analyze_duplicates.                                                     *)
(***************************************************************************)
HighSimilarity == Rat(7, 10)
MediumSimilarity == Rat(4, 10)

NullCandidate == [isNull |-> TRUE]

\* potentialDuplicates: one entry per issue of searchData.issues, in the
\* provider's order; the key of the i-th issue returned is i.
ScoreCandidates(summary, issues) ==
    [i \in 1..Len(issues) |->
        [isNull |-> FALSE,
         key |-> i,
         summary |-> issues[i].summary,
         similarity_score |-> calculateSimilarity(summary, issues[i].summary)]]

\* Array.prototype.sort with (a, b) => b.similarity_score - a.similarity_score:
\* a stable sort, larger scores first.
InsertUnstable(sorted, x) ==
    LET before == {i \in 1..Len(sorted) :
                      ~RatLess(x.similarity_score, sorted[i].similarity_score)}
        at == IF before = {} THEN Len(sorted) + 1
              ELSE CHOOSE i \in before : \A j \in before : i <= j
    IN SubSeq(sorted, 1, at - 1) \o <<x>> \o SubSeq(sorted, at, Len(sorted))

InsertByScore(sorted, x) ==
    LET before == {i \in 1..Len(sorted) :
                      RatLess(sorted[i].similarity_score, x.similarity_score)}
        at == IF before = {} THEN Len(sorted) + 1
              ELSE CHOOSE i \in before : \A j \in before : i <= j
    IN SubSeq(sorted, 1, at - 1) \o <<x>> \o SubSeq(sorted, at, Len(sorted))

RECURSIVE SortBySimilarity(_)
SortBySimilarity(s) ==
    IF s = <<>> THEN <<>>
    ELSE InsertByScore(SortBySimilarity(SubSeq(s, 1, Len(s) - 1)), s[Len(s)])

IsHighMatch(d) == RatLess(HighSimilarity, d.similarity_score)
\* The medium band without its upper end: 0.4 < score < 0.7.
IsMediumMatchBelowHigh(d) ==
    /\ RatLess(MediumSimilarity, d.similarity_score)
    /\ RatLess(d.similarity_score, HighSimilarity)
IsMediumMatch(d) ==
    /\ RatLess(MediumSimilarity, d.similarity_score)
    /\ ~RatLess(HighSimilarity, d.similarity_score)

DuplicateReport(issueKey, summary, issues) ==
    LET potentialDuplicates == SortBySimilarity(ScoreCandidates(summary, issues))
        found == Len(potentialDuplicates) > 0
    IN [analyzed_issue |-> [key |-> issueKey, summary |-> summary],
        duplicate_analysis |->
            [potential_duplicates_found |-> Len(potentialDuplicates),
             high_similarity_matches |-> SelectSeq(potentialDuplicates, IsHighMatch),
             medium_similarity_matches |-> SelectSeq(potentialDuplicates, IsMediumMatch),
             all_matches |-> potentialDuplicates],
        recommendations |->
            [action |-> IF found /\ RatLess(HighSimilarity,
                                            potentialDuplicates[1].similarity_score)
                        THEN "REVIEW_FOR_DUPLICATES"
                        ELSE "PROCEED_WITH_ISSUE",
             confidence |-> IF found THEN "Medium" ELSE "High",
             top_candidate |-> IF found THEN potentialDuplicates[1] ELSE NullCandidate]]

\* analyzeDuplicates with searchData.issues.map(...) in place of
\* searchData.issues?.map(...) || []: a response without an issues field
\* throws a TypeError.
analyzeDuplicatesWithoutDefault(issueKey, issueFetch, searchFetch) ==
    IF ~issueFetch.ok THEN ErrorText(<<"Error analyzing duplicates for", issueKey>>, issueFetch.error)
    ELSE IF ~searchFetch.ok THEN ErrorText(<<"Error analyzing duplicates for", issueKey>>, searchFetch.error)
    ELSE IF ~searchFetch.data.hasIssues
         THEN ErrorText(<<"Error analyzing duplicates for", issueKey>>, "TypeError")
    ELSE Success(DuplicateReport(issueKey, issueFetch.data.summary,
                                 searchFetch.data.issues))

\* issueFetch: `jcli issues show`; searchFetch: `jcli issues list --jql ...`.
\* searchData.issues?.map(...) || []: a response without an issues field
\* is an empty pool.
analyzeDuplicates(issueKey, issueFetch, searchFetch) ==
    IF ~issueFetch.ok THEN ErrorText(<<"Error analyzing duplicates for", issueKey>>, issueFetch.error)
    ELSE IF ~searchFetch.ok THEN ErrorText(<<"Error analyzing duplicates for", issueKey>>, searchFetch.error)
    ELSE Success(DuplicateReport(issueKey, issueFetch.data.summary,
                                 IF searchFetch.data.hasIssues
                                 THEN searchFetch.data.issues ELSE <<>>))

\* Ten keywords: login fails after timeout session export button missing
\* time-out fail.
LongSummary ==
    Sentence(<<wLogin, wfails, wafter, wtimeout, wsession, wExport, wbutton,
               wmissing, wtimeOutBang, wlogDotFail>>)

TargetSummaries ==
    { Sentence(<<wLogin, wfails, wafter, wtimeout>>),
      Sentence(<<wExport, wbutton, wmissing>>),
      LongSummary }

CandidateSummaries ==
    { Sentence(<<wLogin, wfails, wafter, wtimeout>>),
      Sentence(<<wLogin, wfails, wafter, wsession, wtimeout>>),
      Sentence(<<wlogin, wfails>>),
      Sentence(<<wExport, wbutton, wmissing>>),
      Sentence(<<wLogin, wfails, wafter, wtimeout, wsession, wExport, wbutton>>),
      LongSummary,
      Sentence(<<>>) }

IssueFetches == FailedFetches \cup {FetchOk([summary |-> t]) : t \in TargetSummaries}

SearchResponse(pool) == [hasIssues |-> TRUE, issues |-> [i \in 1..Len(pool) |-> [summary |-> pool[i]]]]
NoIssuesField == [hasIssues |-> FALSE, issues |-> <<>>]

SearchFetches ==
    FailedFetches \cup {FetchOk(NoIssuesField)}
        \cup {FetchOk(SearchResponse(pool)) : pool \in SeqsUpTo(CandidateSummaries, MaxPool)}

(***************************************************************************)
(* get_component_health, all components (no component name supplied).     *)
(***************************************************************************)
RecentDays == 30
StaleDays == 60
HealthyScore == 80
ConcernScore == 60

ClosedStatusNames == {"Done", "Closed", "Resolved"}
\* issuetype names of the input domain whose lower case contains 'bug'
BugTypeNames == {"Bug"}

\* Each issue counted for its first component only.
RECURSIVE FirstComponentVisits(_)
FirstComponentVisits(issues) ==
    IF issues = <<>> THEN <<>>
    ELSE LET issue == Head(issues)
         IN (IF issue.components = <<>> THEN <<>>
             ELSE <<[name |-> issue.components[1], issue |-> issue]>>)
            \o FirstComponentVisits(Tail(issues))

\* One (component, issue) pair per components.forEach step, in the order
\* allIssues.forEach visits them.
RECURSIVE ComponentVisits(_)
ComponentVisits(issues) ==
    IF issues = <<>> THEN <<>>
    ELSE LET issue == Head(issues)
         IN [k \in 1..Len(issue.components) |->
                [name |-> issue.components[k], issue |-> issue]]
            \o ComponentVisits(Tail(issues))

NewStats(name) ==
    [name |-> name, total |-> 0, open |-> 0, bugs |-> 0, recent |-> 0,
     stale |-> 0, ageSum |-> 0]

\* componentStats[comp.name] updated for one issue; ages is kept as its sum
\* (its length is total).
CountIssue(stats, issue) ==
    LET isOpen == issue.status \notin ClosedStatusNames
        isBug == issue.issuetype \in BugTypeNames
        isRecent == issue.ageDays <= RecentDays
        isStale == issue.ageDays > StaleDays
    IN [stats EXCEPT !.total = @ + 1,
                     !.open = IF isOpen THEN @ + 1 ELSE @,
                     !.bugs = IF isBug THEN @ + 1 ELSE @,
                     !.recent = IF isRecent THEN @ + 1 ELSE @,
                     !.stale = IF isStale /\ isOpen THEN @ + 1 ELSE @,
                     !.ageSum = @ + issue.ageDays]

\* componentStats as the sequence of its values in insertion order.
RECURSIVE CollectStats(_)
CollectStats(visits) ==
    IF visits = <<>> THEN <<>>
    ELSE LET sofar == CollectStats(SubSeq(visits, 1, Len(visits) - 1))
             v == visits[Len(visits)]
         IN IF \E i \in 1..Len(sofar) : sofar[i].name = v.name
            THEN [i \in 1..Len(sofar) |->
                     IF sofar[i].name = v.name THEN CountIssue(sofar[i], v.issue)
                     ELSE sofar[i]]
            ELSE Append(sofar, CountIssue(NewStats(v.name), v.issue))

\* The score without the penalty for open issues.
HealthScoreIgnoresOpen(stats, defectRatio, staleness) ==
    LET bonus == IF stats.recent > 0 THEN 5 ELSE 0
        den == defectRatio.den * staleness.den
    IN Rat((100 + bonus) * den - 50 * defectRatio.num * staleness.den
              - 40 * staleness.num * defectRatio.den,
           den)

\* 100 - defectRatio*50 - staleness*40 - openRatio*30 (+5), as one fraction.
HealthScoreValue(stats, defectRatio, staleness) ==
    LET openRatio == IF stats.total > 0 THEN Rat(stats.open, stats.total) ELSE Rat(0, 1)
        bonus == IF stats.recent > 0 THEN 5 ELSE 0
        den == defectRatio.den * staleness.den * openRatio.den
    IN Rat((100 + bonus) * den
              - 50 * defectRatio.num * staleness.den * openRatio.den
              - 40 * staleness.num * defectRatio.den * openRatio.den
              - 30 * openRatio.num * defectRatio.den * staleness.den,
           den)

calculateComponentHealthScore(stats, defectRatio, staleness) ==
    LET score == HealthScoreValue(stats, defectRatio, staleness)
    IN Max(0, MathRound(score.num, score.den))

ComponentEntry(stats) ==
    LET defectRatio == IF stats.total > 0 THEN Rat(stats.bugs, stats.total) ELSE Rat(0, 1)
        staleness == IF stats.open > 0 THEN Rat(stats.stale, stats.open) ELSE Rat(0, 1)
    IN [name |-> stats.name, total |-> stats.total, open |-> stats.open,
        bugs |-> stats.bugs, recent |-> stats.recent, stale |-> stats.stale,
        health_score |-> calculateComponentHealthScore(stats, defectRatio, staleness)]

\* Array.prototype.sort (stable) on health_score; `first(x, e)` says that x
\* has to come before e.
InsertComponent(sorted, x, first(_, _)) ==
    LET before == {i \in 1..Len(sorted) : first(x, sorted[i])}
        at == IF before = {} THEN Len(sorted) + 1
              ELSE CHOOSE i \in before : \A j \in before : i <= j
    IN SubSeq(sorted, 1, at - 1) \o <<x>> \o SubSeq(sorted, at, Len(sorted))

HigherScore(x, e) == x.health_score > e.health_score
LowerScore(x, e) == x.health_score < e.health_score

RECURSIVE SortHealthiestFirst(_)
SortHealthiestFirst(s) ==
    IF s = <<>> THEN <<>>
    ELSE InsertComponent(SortHealthiestFirst(SubSeq(s, 1, Len(s) - 1)), s[Len(s)], HigherScore)

\* The concern and critical lists left in the order of insertion.
KeepOrder(s) == s

RECURSIVE SortWorstFirst(_)
SortWorstFirst(s) ==
    IF s = <<>> THEN <<>>
    ELSE InsertComponent(SortWorstFirst(SubSeq(s, 1, Len(s) - 1)), s[Len(s)], LowerScore)

IsHealthy(c) == c.health_score >= HealthyScore
IsConcern(c) == c.health_score < HealthyScore /\ c.health_score >= ConcernScore
IsCritical(c) == c.health_score < ConcernScore

analyzeAllComponents(allIssues) ==
    LET componentStats == CollectStats(ComponentVisits(allIssues))
        components == [i \in 1..Len(componentStats) |-> ComponentEntry(componentStats[i])]
        healthyComponents == SelectSeq(components, IsHealthy)
        concernComponents == SelectSeq(components, IsConcern)
        criticalComponents == SelectSeq(components, IsCritical)
    IN [component_summary |->
            [total_components |-> Len(componentStats),
             healthy_components |-> Len(healthyComponents),
             components_of_concern |-> Len(concernComponents),
             critical_components |-> Len(criticalComponents)],
        component_details |->
            [healthy |-> SortHealthiestFirst(healthyComponents),
             concern |-> SortWorstFirst(concernComponents),
             critical |-> SortWorstFirst(criticalComponents)]]

IssuesOf(fetch) == IF fetch.data.hasIssues THEN fetch.data.issues ELSE <<>>

\* getComponentHealth without a component: three fetches in sequence (all,
\* open, recent); the first failure is caught and reported.
getAllComponentsHealth(allFetch, openFetch, recentFetch) ==
    IF ~allFetch.ok THEN ErrorText(<<"Error analyzing component health">>, allFetch.error)
    ELSE IF ~openFetch.ok THEN ErrorText(<<"Error analyzing component health">>, openFetch.error)
    ELSE IF ~recentFetch.ok THEN ErrorText(<<"Error analyzing component health">>, recentFetch.error)
    ELSE Success(analyzeAllComponents(IssuesOf(allFetch)))

ComponentLists == {<<>>, <<"ui">>, <<"ui", "api">>}
HealthIssues ==
    [components : ComponentLists, status : {"In Progress", "Done"},
     issuetype : {"Bug", "Task"}, ageDays : {10, 45, 90}]

IssueList(issues) == [hasIssues |-> TRUE, issues |-> issues]
EmptyList == IssueList(<<>>)

(***************************************************************************)
(* get_release_readiness.                                                  *)
(*                                                                         *)
(* allIssues and blockedIssues are only measured (.length): they are kept  *)
(* as their lengths.  openIssues is counted and filtered by priority,      *)
(* assignee and testing marks: it is kept as the number of issues of each  *)
(* kind of OpenKinds, openIssues[i] being the count of OpenKinds[i].       *)
(***************************************************************************)
NoField == "undefined"

OpenKinds ==
    << [priority |-> "Critical", assignee |-> "alice", testing |-> FALSE],
       [priority |-> "Blocker", assignee |-> NoField, testing |-> FALSE],
       [priority |-> NoField, assignee |-> NoField, testing |-> FALSE],
       [priority |-> "Low", assignee |-> "bob", testing |-> TRUE],
       [priority |-> "Low", assignee |-> "alice", testing |-> FALSE] >>

\* priority names of the input domain whose lower case contains 'critical'
\* or 'blocker'
CriticalPriorityNames == {"Critical", "Blocker"}

IsCriticalIssue(issue) == issue.priority \in CriticalPriorityNames
IsUnassignedIssue(issue) == issue.assignee = NoField
IsTestingIssue(issue) == issue.testing

\* openIssues.length and openIssues.filter(test).length
OpenLength(openIssues) == SumSeq(openIssues)
CountWhere(openIssues, test(_)) ==
    SumSeq([i \in 1..Len(OpenKinds) |-> IF test(OpenKinds[i]) THEN openIssues[i] ELSE 0])

CompletionLowBand == 50
CompletionMediumBand == 80
CriticalHighCount == 5
BlockedHighCount == 3

analyzeReleaseReadiness(allLength, openIssues, blockedLength) ==
    LET totalIssues == allLength
        completedIssues == totalIssues - OpenLength(openIssues)
        completionPercentage ==
            IF totalIssues > 0 THEN Percent(completedIssues, totalIssues) ELSE 100
    IN [completion_metrics |->
            [total_issues |-> totalIssues,
             completed_issues |-> completedIssues,
             remaining_issues |-> OpenLength(openIssues),
             completion_percentage |-> completionPercentage,
             blocked_issues |-> blockedLength],
        risk_factors |->
            [critical_open_issues |-> CountWhere(openIssues, IsCriticalIssue),
             unassigned_issues |-> CountWhere(openIssues, IsUnassignedIssue),
             blocked_issues |-> blockedLength,
             testing_issues |-> CountWhere(openIssues, IsTestingIssue)]]

\* The score with blocked issues added instead of subtracted.
ReadinessRewardsBlocked(analysis) ==
    LET remaining == analysis.completion_metrics.remaining_issues
        den == IF remaining > 0 THEN remaining ELSE 1
        unassigned == IF remaining > 0 THEN analysis.risk_factors.unassigned_issues ELSE 0
    IN Rat(den * (1000 - 6 * (100 - analysis.completion_metrics.completion_percentage)
                       - 100 * analysis.risk_factors.critical_open_issues
                       + 80 * analysis.risk_factors.blocked_issues)
              - 300 * unassigned,
           10 * den)

\* 100 - (100 - completion)*0.6 - critical*10 - blocked*8
\*     - unassignedPercentage*0.3, as one fraction.
ReadinessValue(analysis) ==
    LET remaining == analysis.completion_metrics.remaining_issues
        den == IF remaining > 0 THEN remaining ELSE 1
        unassigned == IF remaining > 0 THEN analysis.risk_factors.unassigned_issues ELSE 0
    IN Rat(den * (1000 - 6 * (100 - analysis.completion_metrics.completion_percentage)
                       - 100 * analysis.risk_factors.critical_open_issues
                       - 80 * analysis.risk_factors.blocked_issues)
              - 300 * unassigned,
           10 * den)

ReadinessUnclamped(analysis) ==
    MathRound(ReadinessValue(analysis).num, ReadinessValue(analysis).den)

calculateReadinessScore(analysis) ==
    Max(0, MathRound(ReadinessValue(analysis).num, ReadinessValue(analysis).den))

Risk(category, level) == [category |-> category, level |-> level]

CompletionRiskInclusive(completion) ==
    IF completion < CompletionLowBand THEN <<Risk("COMPLETION", "HIGH")>>
    ELSE IF completion <= CompletionMediumBand THEN <<Risk("COMPLETION", "MEDIUM")>>
    ELSE <<>>

CompletionRisk(completion) ==
    IF completion < CompletionLowBand THEN <<Risk("COMPLETION", "HIGH")>>
    ELSE IF completion < CompletionMediumBand THEN <<Risk("COMPLETION", "MEDIUM")>>
    ELSE <<>>

CriticalRisk(criticalCount) ==
    IF criticalCount > 0
    THEN <<Risk("CRITICAL_ISSUES", IF criticalCount > CriticalHighCount THEN "HIGH" ELSE "MEDIUM")>>
    ELSE <<>>

BlockedRisk(blockedCount) ==
    IF blockedCount > 0
    THEN <<Risk("BLOCKED_WORK", IF blockedCount > BlockedHighCount THEN "HIGH" ELSE "MEDIUM")>>
    ELSE <<>>

\* unassignedCount > remaining_issues * 0.3
ResourceRisk(unassignedCount, remaining) ==
    IF 10 * unassignedCount > 3 * remaining
    THEN <<Risk("RESOURCE_ALLOCATION", "MEDIUM")>> ELSE <<>>

TestingRisk(testingCount) ==
    IF testingCount > 0 THEN <<Risk("QUALITY_ASSURANCE", "MEDIUM")>> ELSE <<>>

\* overallRiskLevel after a factor that assigns it: HIGH for a HIGH factor,
\* MEDIUM for a MEDIUM one unless the level is HIGH already.
Raise(level, risks) ==
    IF risks = <<>> THEN level
    ELSE IF risks[1].level = "HIGH" THEN "HIGH"
    ELSE IF level # "HIGH" THEN "MEDIUM" ELSE level

assessReleaseRisks(analysis) ==
    LET completion == CompletionRisk(analysis.completion_metrics.completion_percentage)
        critical == CriticalRisk(analysis.risk_factors.critical_open_issues)
        blocked == BlockedRisk(analysis.risk_factors.blocked_issues)
        resource == ResourceRisk(analysis.risk_factors.unassigned_issues,
                                 analysis.completion_metrics.remaining_issues)
        testing == TestingRisk(analysis.risk_factors.testing_issues)
        \* the testing factor is pushed without touching overallRiskLevel
        overallRiskLevel == Raise(Raise(Raise(Raise("LOW", completion), critical), blocked),
                                  resource)
    IN [overall_risk_level |-> overallRiskLevel,
        risk_factors |-> completion \o critical \o blocked \o resource \o testing,
        release_readiness_score |-> calculateReadinessScore(analysis)]

\* The closing verdict of generateReleaseRecommendations.
ReleaseVerdict(analysis) ==
    LET risks == assessReleaseRisks(analysis)
    IN IF risks.overall_risk_level = "HIGH" THEN "HIGH RISK RELEASE"
       ELSE IF risks.overall_risk_level = "MEDIUM" THEN "MODERATE RISK"
       ELSE "Release appears ready"

LengthOf(fetch) == IF fetch.data.hasIssues THEN fetch.data.length ELSE 0

\* getReleaseReadiness: three fetches in sequence (version, open, blocked).
getReleaseReadiness(version, versionFetch, openFetch, blockedFetch) ==
    IF ~versionFetch.ok THEN ErrorText(<<"Error analyzing release readiness for", version>>, versionFetch.error)
    ELSE IF ~openFetch.ok THEN ErrorText(<<"Error analyzing release readiness for", version>>, openFetch.error)
    ELSE IF ~blockedFetch.ok THEN ErrorText(<<"Error analyzing release readiness for", version>>, blockedFetch.error)
    ELSE LET readinessAnalysis ==
                 analyzeReleaseReadiness(LengthOf(versionFetch), IssuesOf(openFetch),
                                         LengthOf(blockedFetch))
         IN Success([readiness_analysis |-> readinessAnalysis,
                     risk_assessment |-> assessReleaseRisks(readinessAnalysis),
                     verdict |-> ReleaseVerdict(readinessAnalysis)])

\* Every way of giving counts to the kinds from position k on, n at most in all.
RECURSIVE CountsFrom(_, _)
CountsFrom(k, n) ==
    IF k > Len(OpenKinds) THEN {<<>>}
    ELSE UNION {{<<c>> \o rest : rest \in CountsFrom(k + 1, n - c)} : c \in 0..n}

OpenIssueLists == CountsFrom(1, MaxOpen)
IssuesOfLength(n) == [hasIssues |-> TRUE, length |-> n]
NoOpenIssues == [k \in 1..Len(OpenKinds) |-> 0]

(***************************************************************************)
(* get_sprint_insights.                                                    *)
(***************************************************************************)
\* String.prototype.includes
Includes(hay, needle) ==
    \E i \in 1..(Len(hay) - Len(needle) + 1) : SubSeq(hay, i, i + Len(needle) - 1) = needle

\* Array.prototype.find over a sequence of board names: the first one that
\* passes, NullText when none does.
Find(boards, test(_)) ==
    LET passing == {i \in 1..Len(boards) : test(boards[i])}
    IN IF passing = {} THEN NullText
       ELSE boards[CHOOSE i \in passing : \A j \in passing : i <= j]

suggestBoardFromConfigured(configuredBoards, partialName) ==
    IF Len(configuredBoards) = 0 THEN NullText
    ELSE IF Falsy(partialName) THEN configuredBoards[1]
    ELSE LET lowercasePartial == toLowerCase(partialName.chars)
             isExact(board) == toLowerCase(board.chars) = lowercasePartial
             isPartial(board) ==
                 \/ Includes(toLowerCase(board.chars), lowercasePartial)
                 \/ Includes(lowercasePartial, toLowerCase(board.chars))
             exactMatch == Find(configuredBoards, isExact)
             partialMatch == Find(configuredBoards, isPartial)
         IN IF ~Falsy(exactMatch) THEN exactMatch
            ELSE IF ~Falsy(partialMatch) THEN partialMatch
            ELSE configuredBoards[1]

\* actualBoardName of getBoardSprints and getSprintInsights
ActualBoardName(configuredBoards, boardName) ==
    IF Falsy(boardName) /\ Len(configuredBoards) > 0 THEN configuredBoards[1]
    ELSE IF ~Falsy(boardName)
         THEN LET suggestedBoard == suggestBoardFromConfigured(configuredBoards, boardName)
              IN IF ~Falsy(suggestedBoard) /\ suggestedBoard # boardName
                 THEN suggestedBoard ELSE boardName
         ELSE boardName

cDone == <<"d","o","n","e">>
cClosed == <<"c","l","o","s","e","d">>
cComplete == <<"c","o","m","p","l","e","t","e">>
cProgress == <<"p","r","o","g","r","e","s","s">>
cReview == <<"r","e","v","i","e","w">>
cTesting == <<"t","e","s","t","i","n","g">>

\* The velocity bucket with the in-progress words looked at first.
VelocityBucketProgressFirst(columnName) ==
    LET columnLower == toLowerCase(columnName)
    IN IF Includes(columnLower, cProgress) \/ Includes(columnLower, cReview)
          \/ Includes(columnLower, cTesting)
       THEN "in_progress"
       ELSE IF Includes(columnLower, cDone) \/ Includes(columnLower, cClosed)
               \/ Includes(columnLower, cComplete)
            THEN "done"
            ELSE "todo"

\* The velocity bucket of a column name.
VelocityBucket(columnName) ==
    LET columnLower == toLowerCase(columnName)
    IN IF Includes(columnLower, cDone) \/ Includes(columnLower, cClosed)
          \/ Includes(columnLower, cComplete)
       THEN "done"
       ELSE IF Includes(columnLower, cProgress) \/ Includes(columnLower, cReview)
               \/ Includes(columnLower, cTesting)
            THEN "in_progress"
            ELSE "todo"

\* An issue of a column is a key (a string stub) or an object whose assignee
\* may be missing.
StubIssue(key) == [isObject |-> FALSE, key |-> key, assignee |-> NoField]
ColumnIssue(key, assignee) == [isObject |-> TRUE, key |-> key, assignee |-> assignee]

AssigneeOf(issue) ==
    IF issue.isObject /\ issue.assignee # NoField THEN issue.assignee ELSE "Unassigned"

RECURSIVE AllColumnIssues(_)
AllColumnIssues(columns) ==
    IF columns = <<>> THEN <<>>
    ELSE Head(columns).issues \o AllColumnIssues(Tail(columns))

\* The velocity counters raised by one per column, not by its issues.
CountColumnsInBucket(columns, bucket) ==
    SumSeq([k \in 1..Len(columns) |->
               IF VelocityBucket(columns[k].name) = bucket THEN 1 ELSE 0])

CountInBucket(columns, bucket) ==
    SumSeq([k \in 1..Len(columns) |->
               IF VelocityBucket(columns[k].name) = bucket
               THEN Len(columns[k].issues) ELSE 0])

\* One pass of the loop `for (const sprint of targetSprints)`.
SprintInsight(sprint) ==
    LET columns == IF sprint.hasColumns THEN sprint.columns ELSE <<>>
        issues == AllColumnIssues(columns)
        totalIssues == Len(issues)
        doneIssues == CountInBucket(columns, "done")
        assigned == SelectSeq(issues, LAMBDA i : AssigneeOf(i) # "Unassigned")
        names == {AssigneeOf(assigned[k]) : k \in 1..Len(assigned)}
    IN [sprint_info |->
            [id |-> sprint.id,
             state |-> IF sprint.state = NoField THEN "unknown" ELSE sprint.state],
        issue_analysis |->
            [total_issues |-> totalIssues,
             by_status |-> [k \in 1..Len(columns) |->
                               [column |-> columns[k].name,
                                count |-> Len(columns[k].issues)]],
             by_assignee |-> [n \in names |->
                                 Len(SelectSeq(assigned, LAMBDA i : AssigneeOf(i) = n))],
             unassigned_count |-> Len(issues) - Len(assigned)],
        progress_metrics |->
            [completion_percentage |->
                 IF totalIssues > 0 THEN RoundedPercents[totalIssues][doneIssues] ELSE 0,
             velocity_indicators |->
                 [done_issues |-> doneIssues,
                  in_progress_issues |-> CountInBucket(columns, "in_progress"),
                  todo_issues |-> CountInBucket(columns, "todo")]]]

IsActive(sprint) == sprint.state = "active"

\* sprints.filter(s => s.state === 'active') || sprints.slice(0, 1): an
\* array is truthy even when empty, so the right operand is never taken.
TargetSprints(sprints, sprintName) ==
    IF Falsy(sprintName) THEN SelectSeq(sprints, IsActive) ELSE sprints

\* The handler up to its return or throw.  The catch block reads
\* actualBoardName, which is declared by `let` inside the try block and is
\* not in scope there: evaluating the error line throws a ReferenceError.
getSprintInsights(configuredBoards, boardName, sprintName, sprintsFetch) ==
    LET actualBoardName == ActualBoardName(configuredBoards, boardName)
    IN IF Falsy(actualBoardName)
       THEN ErrorJSON("No board specified and no boards configured")
       ELSE IF ~sprintsFetch.ok
            THEN Thrown(ReferenceError("actualBoardName is not defined"))
            ELSE IF Len(sprintsFetch.data) = 0
                 THEN PlainText("No sprints found for board")
                 ELSE LET targetSprints == TargetSprints(sprintsFetch.data, sprintName)
                          insights == [k \in 1..Len(targetSprints) |->
                                          SprintInsight(targetSprints[k])]
                      IN Success([board_name |-> actualBoardName,
                                  sprint_insights |-> insights,
                                  summary |->
                                      [total_sprints_analyzed |-> Len(insights),
                                       active_sprints |->
                                           Len(SelectSeq(insights,
                                                   LAMBDA i : i.sprint_info.state = "active"))]])

bTeamAlpha == Str(<<"T","e","a","m"," ","A","l","p","h","a">>)
bAlpha == Str(<<"a","l","p","h","a">>)
bOps == Str(<<"O","p","s">>)
bPlatform == Str(<<"P","l","a","t","f","o","r","m">>)

BoardConfigs == {<<>>, <<bOps, bTeamAlpha>>}
BoardArguments == {NullText, bAlpha, bPlatform}
SprintNameArguments == {NullText, Str(<<"S","1">>)}

cnToDo == <<"T","o"," ","D","o">>
cnInProgress == <<"I","n"," ","P","r","o","g","r","e","s","s">>
cnDone == <<"D","o","n","e">>

SampleColumns ==
    << [name |-> cnToDo, issues |-> <<StubIssue("FDP-1"), ColumnIssue("FDP-2", "alice")>>],
       [name |-> cnInProgress, issues |-> <<ColumnIssue("FDP-3", NoField)>>],
       [name |-> cnDone, issues |-> <<ColumnIssue("FDP-4", "alice")>>] >>

SprintShapes ==
    [state : {"active", "closed", "future", NoField}, hasColumns : {FALSE}, columns : {<<>>}]
        \cup [state : {"active", "closed", "future", NoField}, hasColumns : {TRUE},
              columns : {SampleColumns}]

\* The sprints of a provider response: the i-th sprint has id i.
SprintLists ==
    {[i \in 1..Len(shapes) |->
         [id |-> i, state |-> shapes[i].state, hasColumns |-> shapes[i].hasColumns,
          columns |-> shapes[i].columns]] : shapes \in SeqsUpTo(SprintShapes, MaxSprints)}

SprintFetches == FailedFetches \cup {FetchOk(sprints) : sprints \in SprintLists}

(***************************************************************************)
(* get_issue_details, get_component_experts and get_triage_summary.        *)
(***************************************************************************)
getIssueDetails(issueKey, issueFetch) ==
    IF ~issueFetch.ok THEN ErrorText(<<"Error retrieving issue", issueKey>>, issueFetch.error)
    ELSE LET issue == issueFetch.data
         IN Success([key |-> issueKey,
                     summary |-> issue.summary,
                     status |-> issue.status,
                     priority |-> IF issue.priority = NoField THEN "Undefined"
                                  ELSE issue.priority,
                     assignee |-> IF issue.assignee = NoField THEN "Unassigned"
                                  ELSE issue.assignee,
                     ageDays |-> issue.ageDays,
                     components |-> issue.components])

NullExpert == [isNull |-> TRUE]
ExpertClosedStatusNames == {"Closed", "Done"}

\* assigneeStats as the sequence of its values in insertion order; issues
\* without an assignee are skipped.
RECURSIVE AssigneeStats(_)
AssigneeStats(issues) ==
    IF issues = <<>> THEN <<>>
    ELSE LET sofar == AssigneeStats(SubSeq(issues, 1, Len(issues) - 1))
             issue == issues[Len(issues)]
             closed == IF issue.status \in ExpertClosedStatusNames THEN 1 ELSE 0
             count(e) == [e EXCEPT !.total_issues = @ + 1,
                                   !.closed_issues = @ + closed,
                                   !.open_issues = @ + (1 - closed)]
             fresh == [isNull |-> FALSE, name |-> issue.assignee, total_issues |-> 0,
                       closed_issues |-> 0, open_issues |-> 0]
         IN IF issue.assignee = NoField THEN sofar
            ELSE IF \E i \in 1..Len(sofar) : sofar[i].name = issue.assignee
                 THEN [i \in 1..Len(sofar) |->
                          IF sofar[i].name = issue.assignee THEN count(sofar[i])
                          ELSE sofar[i]]
                 ELSE Append(sofar, count(fresh))

InsertExpert(sorted, x, first(_, _)) ==
    LET before == {i \in 1..Len(sorted) : first(x, sorted[i])}
        at == IF before = {} THEN Len(sorted) + 1
              ELSE CHOOSE i \in before : \A j \in before : i <= j
    IN SubSeq(sorted, 1, at - 1) \o <<x>> \o SubSeq(sorted, at, Len(sorted))

MoreIssues(x, e) == x.total_issues > e.total_issues
\* completion_rate = closed_issues / total_issues, total_issues > 0
HigherCompletion(x, e) ==
    x.closed_issues * e.total_issues > e.closed_issues * x.total_issues

RECURSIVE SortByTotalIssues(_)
SortByTotalIssues(s) ==
    IF s = <<>> THEN <<>>
    ELSE InsertExpert(SortByTotalIssues(SubSeq(s, 1, Len(s) - 1)), s[Len(s)], MoreIssues)

RECURSIVE SortByCompletionRate(_)
SortByCompletionRate(s) ==
    IF s = <<>> THEN <<>>
    ELSE InsertExpert(SortByCompletionRate(SubSeq(s, 1, Len(s) - 1)), s[Len(s)],
                      HigherCompletion)

FirstOrNull(s) == IF Len(s) > 0 THEN s[1] ELSE NullExpert

\* expertAnalysis.  primary_expert and most_active_recently are read from
\* experts as sorted by total_issues; experts.sort(by completion_rate) then
\* reorders that same array in place, and it is serialised in that order.
ExpertAnalysis(component, issues) ==
    LET experts == SortByTotalIssues(AssigneeStats(issues))
        active == SelectSeq(experts, LAMBDA e : e.open_issues > 0)
        resorted == SortByCompletionRate(experts)
    IN [component |-> component,
        experts |-> resorted,
        recommendations |->
            [primary_expert |-> FirstOrNull(experts),
             most_active_recently |-> FirstOrNull(active),
             highest_completion_rate |-> FirstOrNull(resorted)]]

getComponentExperts(component, expertFetch) ==
    IF ~expertFetch.ok
    THEN ErrorText(<<"Error analyzing component experts for", component>>, expertFetch.error)
    ELSE Success(ExpertAnalysis(component, IssuesOf(expertFetch)))

\* JSON.parse(result.content[0].text): an error line is not JSON.
ParseLenient(res) == [threw |-> FALSE, value |-> res.data]

JSONParse(res) ==
    IF res.json THEN [threw |-> FALSE, value |-> res.data]
    ELSE [threw |-> TRUE, error |-> SyntaxError]

\* The steps with the tracking reminder pushed first.
NextStepsReminderFirst(issueData, duplicateData, hasExperts, expertAnalysis) ==
    <<"Add any missing components or labels for better tracking">>
    \o (IF duplicateData.recommendations.action = "REVIEW_FOR_DUPLICATES"
        THEN <<"Review potential duplicate">> ELSE <<>>)
    \o (IF hasExperts /\ issueData.assignee = "Unassigned"
        THEN <<"Consider assigning to component expert">> ELSE <<>>)
    \o (IF issueData.status \in {"New", "To Do"}
        THEN <<"Move to In Progress and begin investigation">> ELSE <<>>)

generateNextSteps(issueData, duplicateData, hasExperts, expertAnalysis) ==
    (IF duplicateData.recommendations.action = "REVIEW_FOR_DUPLICATES"
     THEN <<"Review potential duplicate">> ELSE <<>>)
    \o (IF hasExperts /\ issueData.assignee = "Unassigned"
        THEN <<"Consider assigning to component expert">> ELSE <<>>)
    \o (IF issueData.status \in {"New", "To Do"}
        THEN <<"Move to In Progress and begin investigation">> ELSE <<>>)
    \o <<"Add any missing components or labels for better tracking">>

\* triageSummary; expertAnalysis is null (hasExperts = FALSE) when the issue
\* has no component.
TriageSummary(issueData, duplicateData, hasExperts, expertAnalysis) ==
    LET review == duplicateData.recommendations.action = "REVIEW_FOR_DUPLICATES"
        matches == duplicateData.duplicate_analysis.all_matches
        known == IF hasExperts
                 THEN SelectSeq(expertAnalysis.experts,
                                LAMBDA e : e.name = issueData.assignee)
                 ELSE <<>>
    IN [issue_overview |->
            [key |-> issueData.key, status |-> issueData.status,
             priority |-> issueData.priority, assignee |-> issueData.assignee,
             age_days |-> issueData.ageDays, components |-> issueData.components],
        duplicate_risk |->
            [risk_level |-> IF review THEN "HIGH" ELSE "LOW",
             potential_duplicates |->
                 duplicateData.duplicate_analysis.potential_duplicates_found,
             top_match |-> IF Len(matches) > 0 THEN matches[1] ELSE NullCandidate],
        has_assignment_analysis |-> hasExperts,
        triage_recommendations |->
            <<[priority |-> IF review THEN "HIGH" ELSE "LOW",
               action |-> duplicateData.recommendations.action,
               reason |-> IF review
                          THEN "Potential duplicate detected - review before proceeding"
                          ELSE "No duplicates found - proceed with normal triage"]>>,
        assignment_analysis |->
            IF hasExperts
            THEN [current_assignee_expertise |-> FirstOrNull(known),
                  recommended_expert |-> expertAnalysis.recommendations.primary_expert]
            ELSE NullExpert,
        next_steps |-> generateNextSteps(issueData, duplicateData, hasExperts,
                                         expertAnalysis)]

TriageError(issueKey, err) ==
    ErrorText(<<"Error generating triage summary for", issueKey>>, err)

TriageIssues ==
    [summary : {Sentence(<<wLogin, wfails, wafter, wtimeout>>)},
     status : {"New", "To Do", "In Progress"}, priority : {NoField},
     assignee : {NoField, "alice"},
     ageDays : {12}, components : {<<>>, <<"ui">>}]

DetailFetches == FailedFetches \cup {FetchOk(i) : i \in TriageIssues}

TriageSearchFetches ==
    FailedFetches \cup {FetchOk(NoIssuesField)}
        \cup {FetchOk(SearchResponse(pool)) :
                 pool \in {<<>>,
                           <<Sentence(<<wLogin, wfails, wafter, wsession, wtimeout>>)>>,
                           <<Sentence(<<wlogin, wfails>>)>>}}

ExpertIssues == [assignee : {NoField, "alice", "bob"}, status : {"Done", "Open"}]
ExpertFetches ==
    FailedFetches \cup {FetchOk(IssueList(issues)) :
                           issues \in SeqsUpTo(ExpertIssues, MaxExpertIssues)}

(***************************************************************************)
(* The request loop.                                                       *)
(***************************************************************************)
DefaultConfig == [defaultProject |-> "FDP", configuredBoards |-> <<>>]

Init ==
    /\ config = DefaultConfig
    /\ pc = "ready"
    /\ call = NoCall
    /\ result = NoResult
    /\ stages = <<>>
    /\ locals = NoLocals

\* The response is delivered; every request-scoped value is discarded.
Return ==
    /\ pc = "done"
    /\ pc' = "ready"
    /\ call' = NoCall
    /\ result' = NoResult
    /\ stages' = <<>>
    /\ locals' = NoLocals
    /\ UNCHANGED config

\* A direct use of the helper calculateSimilarity on two texts.
CalculateSimilarity ==
    /\ pc = "ready"
    /\ \E text1 \in Texts, text2 \in Texts :
          /\ call' = [tool |-> "calculateSimilarity", text1 |-> text1, text2 |-> text2]
          /\ result' = [kind |-> "similarity",
                        score |-> calculateSimilarity(text1, text2)]
    /\ pc' = "done"
    /\ UNCHANGED <<config, stages, locals>>

AnalyzeDuplicates ==
    /\ pc = "ready"
    /\ \E issueFetch \in IssueFetches, searchFetch \in SearchFetches :
          /\ call' = [tool |-> "analyze_duplicates", issue_key |-> "FDP-1",
                      issueFetch |-> issueFetch, searchFetch |-> searchFetch]
          /\ result' = analyzeDuplicates("FDP-1", issueFetch, searchFetch)
    /\ pc' = "done"
    /\ UNCHANGED <<config, stages, locals>>

NextDup == AnalyzeDuplicates \/ Return
SpecDup == Init /\ [][NextDup]_vars

\* get_component_health for all components: either every fetch succeeds, or
\* one of the three fails.
GetComponentHealth ==
    /\ pc = "ready"
    /\ \/ \E issues \in SeqsUpTo(HealthIssues, MaxIssues) :
             /\ call' = [tool |-> "get_component_health", allFetch |-> FetchOk(IssueList(issues))]
             /\ result' = getAllComponentsHealth(FetchOk(IssueList(issues)),
                                                 FetchOk(EmptyList), FetchOk(EmptyList))
       \/ \E failing \in 1..3, failed \in FailedFetches :
             LET fetch(k) == IF k = failing THEN failed ELSE FetchOk(EmptyList)
             IN /\ call' = [tool |-> "get_component_health", allFetch |-> fetch(1)]
                /\ result' = getAllComponentsHealth(fetch(1), fetch(2), fetch(3))
    /\ pc' = "done"
    /\ UNCHANGED <<config, stages, locals>>

NextHealth == GetComponentHealth \/ Return
SpecHealth == Init /\ [][NextHealth]_vars

\* get_release_readiness: either every fetch succeeds, or one of the three
\* fails.
GetReleaseReadiness ==
    /\ pc = "ready"
    /\ \/ \E allLength \in 0..MaxAll, openIssues \in OpenIssueLists,
             blockedLength \in 0..MaxBlocked :
             /\ call' = [tool |-> "get_release_readiness", version |-> "2.0",
                         versionFetch |-> FetchOk(IssuesOfLength(allLength)),
                         openFetch |-> FetchOk(IssueList(openIssues)),
                         blockedFetch |-> FetchOk(IssuesOfLength(blockedLength))]
             /\ result' = getReleaseReadiness("2.0", FetchOk(IssuesOfLength(allLength)),
                                              FetchOk(IssueList(openIssues)),
                                              FetchOk(IssuesOfLength(blockedLength)))
       \/ \E failing \in 1..3, failed \in FailedFetches :
             LET fetch(k) == IF k = failing THEN failed
                             ELSE IF k = 2 THEN FetchOk(IssueList(NoOpenIssues))
                             ELSE FetchOk(IssuesOfLength(0))
             IN /\ call' = [tool |-> "get_release_readiness", version |-> "2.0",
                            versionFetch |-> fetch(1),
                            openFetch |-> fetch(2), blockedFetch |-> fetch(3)]
                /\ result' = getReleaseReadiness("2.0", fetch(1), fetch(2), fetch(3))
    /\ pc' = "done"
    /\ UNCHANGED <<config, stages, locals>>

NextRelease == GetReleaseReadiness \/ Return
SpecRelease == Init /\ [][NextRelease]_vars

\* The server started with one of the board configurations (JIRA_BOARDS).
InitBoards ==
    /\ config \in {[defaultProject |-> "FDP", configuredBoards |-> boards] :
                      boards \in BoardConfigs}
    /\ pc = "ready"
    /\ call = NoCall
    /\ result = NoResult
    /\ stages = <<>>
    /\ locals = NoLocals

\* get_sprint_insights that keeps the board it used as the configured
\* boards of the server.
GetSprintInsightsKeepsBoard ==
    /\ pc = "ready"
    /\ \E boardName \in BoardArguments, sprintName \in SprintNameArguments,
          sprintsFetch \in SprintFetches :
          /\ call' = [tool |-> "get_sprint_insights", board_name |-> boardName,
                      sprint_name |-> sprintName, sprintsFetch |-> sprintsFetch]
          /\ result' = Dispatch("get_sprint_insights",
                                getSprintInsights(config.configuredBoards, boardName,
                                                  sprintName, sprintsFetch))
          /\ config' = [config EXCEPT !.configuredBoards =
                            IF Falsy(ActualBoardName(config.configuredBoards, boardName))
                            THEN @
                            ELSE <<ActualBoardName(config.configuredBoards, boardName)>>]
    /\ pc' = "done"
    /\ UNCHANGED <<stages, locals>>

GetSprintInsights ==
    /\ pc = "ready"
    /\ \E boardName \in BoardArguments, sprintName \in SprintNameArguments,
          sprintsFetch \in SprintFetches :
          /\ call' = [tool |-> "get_sprint_insights", board_name |-> boardName,
                      sprint_name |-> sprintName, sprintsFetch |-> sprintsFetch]
          /\ result' = Dispatch("get_sprint_insights",
                                getSprintInsights(config.configuredBoards, boardName,
                                                  sprintName, sprintsFetch))
    /\ pc' = "done"
    /\ UNCHANGED <<config, stages, locals>>

NextSprint == GetSprintInsights \/ Return
SpecSprint == InitBoards /\ [][NextSprint]_vars

\* getTriageSummary up to its first await: getIssueDetails is started.
\* Each stage ends by parsing the text of the result it awaited; a stage
\* whose text does not parse throws into the catch block of getTriageSummary.
TriageIssueDetails ==
    /\ pc = "ready"
    /\ \E issueFetch \in DetailFetches :
          LET issueDetails == getIssueDetails("FDP-1", issueFetch)
              parsed == JSONParse(issueDetails)
          IN /\ call' = [tool |-> "get_triage_summary", issue_key |-> "FDP-1"]
             /\ stages' = <<[stage |-> "issue_details", failed |-> issueDetails.isError]>>
             /\ IF parsed.threw
                THEN /\ result' = TriageError("FDP-1", parsed.error)
                     /\ locals' = NoLocals
                     /\ pc' = "done"
                ELSE /\ result' = NoResult
                     /\ locals' = [kind |-> "triage", issueData |-> parsed.value]
                     /\ pc' = "triage_duplicates"
    /\ UNCHANGED config

\* The duplicate analysis is awaited; when the issue has no component the
\* summary is built right after it.
TriageDuplicates ==
    /\ pc = "triage_duplicates"
    /\ \E issueFetch \in IssueFetches, searchFetch \in TriageSearchFetches :
          LET duplicateAnalysis == analyzeDuplicates(call.issue_key, issueFetch, searchFetch)
              parsed == JSONParse(duplicateAnalysis)
              lookup == Len(locals.issueData.components) > 0
          IN IF parsed.threw
             THEN /\ stages' = Append(stages, [stage |-> "duplicates",
                                               failed |-> duplicateAnalysis.isError])
                  /\ result' = TriageError(call.issue_key, parsed.error)
                  /\ locals' = NoLocals
                  /\ pc' = "done"
             ELSE IF lookup
             THEN /\ stages' = Append(stages, [stage |-> "duplicates",
                                               failed |-> duplicateAnalysis.isError])
                  /\ result' = NoResult
                  /\ locals' = [kind |-> "triage", issueData |-> locals.issueData,
                                duplicateData |-> parsed.value]
                  /\ pc' = "triage_experts"
             ELSE /\ stages' = stages \o <<[stage |-> "duplicates",
                                            failed |-> duplicateAnalysis.isError],
                                           [stage |-> "combine", failed |-> FALSE]>>
                  /\ result' = Success(TriageSummary(locals.issueData, parsed.value,
                                                     FALSE, NullExpert))
                  /\ locals' = NoLocals
                  /\ pc' = "done"
    /\ UNCHANGED <<config, call>>

\* The expert lookup for the issue's first component is awaited and the
\* summary is built.
TriageExperts ==
    /\ pc = "triage_experts"
    /\ \E expertFetch \in ExpertFetches :
          LET expertResult == getComponentExperts(locals.issueData.components[1], expertFetch)
              parsed == JSONParse(expertResult)
          IN IF parsed.threw
             THEN /\ stages' = Append(stages, [stage |-> "experts",
                                               failed |-> expertResult.isError])
                  /\ result' = TriageError(call.issue_key, parsed.error)
             ELSE /\ stages' = stages \o <<[stage |-> "experts",
                                            failed |-> expertResult.isError],
                                           [stage |-> "combine", failed |-> FALSE]>>
                  /\ result' = Success(TriageSummary(locals.issueData, locals.duplicateData,
                                                     TRUE, parsed.value))
    /\ locals' = NoLocals
    /\ pc' = "done"
    /\ UNCHANGED <<config, call>>

NextTriage == TriageIssueDetails \/ TriageDuplicates \/ TriageExperts \/ Return
SpecTriage == Init /\ [][NextTriage]_vars

NextSim == CalculateSimilarity \/ Return
SpecSim == Init /\ [][NextSim]_vars


(***************************************************************************)
(* Claims.                                                                 *)
(***************************************************************************)
SimilarityCall == pc = "done" /\ call.tool = "calculateSimilarity"
Keys1 == Range(extractKeywords(call.text1))
Keys2 == Range(extractKeywords(call.text2))

\* C1: calculateSimilarity is symmetric under swapping its two texts, its
\* result lies in [0,1], it is 1 for a text compared with itself when that
\* text yields at least one keyword, and it is 0 when either text is empty
\* or absent or the two keyword sets share no element.
C1_SimilarityContract ==
    SimilarityCall =>
        /\ RatEq(result.score, calculateSimilarity(call.text2, call.text1))
        /\ result.score.den > 0
        /\ 0 <= result.score.num /\ result.score.num <= result.score.den
        /\ (call.text1 = call.text2 /\ Keys1 # {}) => result.score.num = result.score.den
        /\ (Falsy(call.text1) \/ Falsy(call.text2) \/ Keys1 \cap Keys2 = {})
              => result.score.num = 0

\* Two different texts whose keyword sets overlap without being equal: the
\* score is strictly between 0 and 1.
C1_Witness ==
    /\ SimilarityCall
    /\ call.text1 # call.text2
    /\ Keys1 \cap Keys2 # {}
    /\ Keys1 \ Keys2 # {}
    /\ 0 < result.score.num /\ result.score.num < result.score.den

DuplicateReportMade ==
    pc = "done" /\ call.tool = "analyze_duplicates" /\ ~result.isError
Pool == IF call.searchFetch.data.hasIssues THEN call.searchFetch.data.issues ELSE <<>>
Matches == result.data.duplicate_analysis.all_matches
Advice == result.data.recommendations

\* C7: the recommendation confidence is Medium exactly when the action is
\* REVIEW_FOR_DUPLICATES and High exactly when it is PROCEED_WITH_ISSUE.
C7_ConfidenceFollowsAction ==
    DuplicateReportMade =>
        /\ Advice.confidence = "Medium" <=> Advice.action = "REVIEW_FOR_DUPLICATES"
        /\ Advice.confidence = "High" <=> Advice.action = "PROCEED_WITH_ISSUE"

\* C8: all_matches holds every candidate once, by non-increasing score with
\* equal scores in the provider's order; top_candidate is its first entry;
\* the action is REVIEW_FOR_DUPLICATES iff some candidate of the pool scores
\* strictly above 0.7 against the analysed summary.
C8_StableRanking ==
    DuplicateReportMade =>
        /\ Len(Matches) = Len(Pool)
        /\ {Matches[i].key : i \in 1..Len(Matches)} = 1..Len(Pool)
        /\ \A i \in 1..Len(Matches) :
              RatEq(Matches[i].similarity_score,
                    calculateSimilarity(call.issueFetch.data.summary,
                                        Pool[Matches[i].key].summary))
        /\ \A i, j \in 1..Len(Matches) :
              i < j =>
                /\ ~RatLess(Matches[i].similarity_score, Matches[j].similarity_score)
                /\ RatEq(Matches[i].similarity_score, Matches[j].similarity_score)
                      => Matches[i].key < Matches[j].key
        /\ Advice.top_candidate = (IF Len(Matches) > 0 THEN Matches[1] ELSE NullCandidate)
        /\ Advice.action = "REVIEW_FOR_DUPLICATES" <=>
              \E i \in 1..Len(Pool) :
                  RatLess(HighSimilarity,
                          calculateSimilarity(call.issueFetch.data.summary, Pool[i].summary))
        /\ Advice.action \in {"REVIEW_FOR_DUPLICATES", "PROCEED_WITH_ISSUE"}

\* A pool whose best candidate is not first in the provider's order and
\* which holds two candidates of equal score: the ranking has to move one
\* and keep the order of the other two.
C8_Witness ==
    /\ DuplicateReportMade
    /\ Len(Matches) = 3
    /\ Matches[1].key # 1
    /\ \E i \in 1..2 : RatEq(Matches[i].similarity_score, Matches[i + 1].similarity_score)
    /\ Advice.action = "REVIEW_FOR_DUPLICATES"

HealthReportMade ==
    pc = "done" /\ call.tool = "get_component_health" /\ ~result.isError
ReportedComponents ==
    result.data.component_details.healthy \o result.data.component_details.concern
        \o result.data.component_details.critical

\* C2: in every multi-component health report, every component's
\* health_score lies in [0,100].
C2_HealthScoreBounded ==
    HealthReportMade =>
        \A i \in 1..Len(ReportedComponents) :
            /\ ReportedComponents[i].health_score >= 0
            /\ ReportedComponents[i].health_score <= 100

ReleaseReportMade ==
    pc = "done" /\ call.tool = "get_release_readiness" /\ ~result.isError
Metrics == result.data.readiness_analysis.completion_metrics
Factors == result.data.readiness_analysis.risk_factors
Assessment == result.data.risk_assessment

\* 10 * remaining * (100 - 0.6*(100 - completion%) - 10*critical - 8*blocked
\*                   - 0.3*unassignedPercentage), remaining taken as 1 and the
\* unassigned share as 0 when no issue remains
C3_Scale == IF Metrics.remaining_issues > 0 THEN 10 * Metrics.remaining_issues ELSE 10
C3_Scaled ==
    (C3_Scale \div 10) * (1000 - 6 * (100 - Metrics.completion_percentage)
                               - 100 * Factors.critical_open_issues
                               - 80 * Factors.blocked_issues)
        - (IF Metrics.remaining_issues > 0 THEN 300 * Factors.unassigned_issues ELSE 0)

Severity(level) == CASE level = "LOW" -> 0 [] level = "MEDIUM" -> 1 [] level = "HIGH" -> 2

\* C4: overall_risk_level is the maximum severity over the factors listed in
\* risk_factors (LOW when none is listed).
C4_OverallIsMaxSeverity ==
    ReleaseReportMade =>
        /\ \A i \in 1..Len(Assessment.risk_factors) :
              Severity(Assessment.risk_factors[i].level)
                  <= Severity(Assessment.overall_risk_level)
        /\ Assessment.overall_risk_level # "LOW" =>
              \E i \in 1..Len(Assessment.risk_factors) :
                  Assessment.risk_factors[i].level = Assessment.overall_risk_level

\* The release of the scenario: 10 issues, 2 of them open, none blocked,
\* critical, unassigned or testing-related.
C5_Scenario ==
    /\ ReleaseReportMade
    /\ Metrics.total_issues = 10
    /\ Metrics.remaining_issues = 2
    /\ Factors.blocked_issues = 0
    /\ Factors.critical_open_issues = 0
    /\ Factors.unassigned_issues = 0
    /\ Factors.testing_issues = 0

\* C5 as stated: the scenario gives completion 80, overall risk MEDIUM and
\* readiness score 88.
C5_ScenarioIsMediumRisk ==
    C5_Scenario =>
        /\ Metrics.completion_percentage = 80
        /\ Assessment.overall_risk_level = "MEDIUM"
        /\ Assessment.release_readiness_score = 88

\* C5 as amended: the scenario gives completion 80, which is outside the
\* MEDIUM completion band (below 80), so no risk factor is listed and the
\* overall risk is LOW; the readiness score is 88.
C5_ScenarioIsLowRisk ==
    C5_Scenario =>
        /\ Metrics.completion_percentage = 80
        /\ Assessment.risk_factors = <<>>
        /\ Assessment.overall_risk_level = "LOW"
        /\ Assessment.release_readiness_score = 88

C5_Witness ==
    /\ C5_Scenario
    /\ call.openFetch.data.issues = <<0, 0, 0, 0, 2>>
    /\ Assessment.release_readiness_score = 88

SprintsFetched ==
    /\ pc = "done" /\ call.tool = "get_sprint_insights"
    /\ ~Falsy(ActualBoardName(config.configuredBoards, call.board_name))
AnalysedIds ==
    [k \in 1..Len(result.data.sprint_insights) |-> result.data.sprint_insights[k].sprint_info.id]
ActiveIds ==
    LET active == SelectSeq(call.sprintsFetch.data, LAMBDA sp : sp.state = "active")
    IN [k \in 1..Len(active) |-> active[k].id]

\* C6: without a sprint name filter the analysed sprints are exactly the
\* active ones, and exactly the first sprint of the provider's list when no
\* sprint is active: the report is never without a sprint insight when the
\* provider returned sprints.
C6_ActiveElseFirstSprint ==
    (SprintsFetched /\ Falsy(call.sprint_name) /\ call.sprintsFetch.ok
        /\ Len(call.sprintsFetch.data) > 0)
    => /\ result.kind = "report"
       /\ AnalysedIds = (IF ActiveIds # <<>> THEN ActiveIds
                         ELSE <<call.sprintsFetch.data[1].id>>)
       /\ Len(AnalysedIds) > 0

\* C9: when the provider fails a fetch of a tool operation, the caller gets
\* a failure result (isError) whose message names the operation and carries
\* the provider's failure cause, never a success report.
C9_FetchFailureCarriesCause ==
    (SprintsFetched /\ ~call.sprintsFetch.ok)
    => /\ result.isError
       /\ result.kind = "errorText"
       /\ result.data.prefix \in {<<"Error executing", "get_sprint_insights">>,
                                  <<"Error getting sprint insights for">>}
       /\ result.data.error = call.sprintsFetch.error

TriageCall == call.tool = "get_triage_summary"
StageNames == [i \in 1..Len(stages) |-> stages[i].stage]
IsPrefix(s, t) == Len(s) <= Len(t) /\ s = SubSeq(t, 1, Len(s))

\* C10: the triage stages start in the order issue details, duplicate
\* analysis, expert lookup (only for an issue with a component), combine;
\* a failed stage is the last one started and ends the call with a failure
\* result; a summary is returned only after every started stage succeeded.
C10_TriagePipeline ==
    TriageCall =>
        /\ \/ IsPrefix(StageNames, <<"issue_details", "duplicates", "experts", "combine">>)
           \/ IsPrefix(StageNames, <<"issue_details", "duplicates", "combine">>)
        /\ \A i \in 1..Len(stages) :
              stages[i].failed => /\ i = Len(stages)
                                  /\ pc = "done"
                                  /\ result.isError
        /\ pc = "triage_experts" => Len(locals.issueData.components) > 0
        /\ pc = "done" =>
              IF \E i \in 1..Len(stages) : stages[i].failed
              THEN result.isError /\ result.kind = "errorText"
              ELSE /\ ~result.isError
                   /\ StageNames[Len(stages)] = "combine"
                   /\ (Len(result.data.issue_overview.components) > 0)
                         <=> (\E i \in 1..Len(stages) : stages[i].stage = "experts")
                   /\ result.data.has_assignment_analysis
                         <=> (\E i \in 1..Len(stages) : stages[i].stage = "experts")

\* The duplicate analysis failed after the issue details were fetched: the
\* call ended there with a failure.
C10_Witness ==
    /\ TriageCall /\ pc = "done"
    /\ Len(stages) = 2
    /\ ~stages[1].failed /\ stages[2].failed
    /\ result.isError

(***************************************************************************)
(* get_user_workload.                                                      *)
(***************************************************************************)
MaxAssigned == 2     \* issues returned to the user workload analysis

OverdueDays == 60

uAlice == <<"a","l","i","c","e">>
uBob == <<"B","o","b">>
uAl == <<"A","l">>

\* status and priority names of the input domain, by the substrings their
\* lower case contains
DoneStatusNames == {"Done", "Closed"}
ProgressStatusNames == {"In Progress", "In Review"}
HighPriorityNames == {"High", "Highest"}

NewUserStats(name) ==
    [name |-> name, total_assigned |-> 0, in_progress |-> 0, open |-> 0,
     done |-> 0, high_priority |-> 0, critical_priority |-> 0, overdue |-> 0,
     ageSum |-> 0, recent_activity |-> <<>>]

\* userStats[assignee] updated for one issue; issue_ages is kept as its sum
\* (its length is total_assigned).
CountAssigned(stats, issue) ==
    LET priority == IF issue.priority = NoField THEN "" ELSE issue.priority
        isDone == issue.status \in DoneStatusNames
        isProgress == issue.status \in ProgressStatusNames
    IN [stats EXCEPT !.total_assigned = @ + 1,
                     !.done = IF isDone THEN @ + 1 ELSE @,
                     !.in_progress = IF ~isDone /\ isProgress THEN @ + 1 ELSE @,
                     !.open = IF ~isDone /\ ~isProgress THEN @ + 1 ELSE @,
                     !.high_priority = IF priority \in HighPriorityNames THEN @ + 1 ELSE @,
                     !.critical_priority =
                         IF priority \in CriticalPriorityNames THEN @ + 1 ELSE @,
                     !.overdue = IF issue.ageDays > OverdueDays /\ ~isDone THEN @ + 1 ELSE @,
                     !.ageSum = @ + issue.ageDays,
                     !.recent_activity =
                         Append(@, [status |-> issue.status, priority |-> priority,
                                    age_days |-> issue.ageDays])]

\* userStats as the sequence of its values in insertion order; an issue
\* whose assignee has no display name is skipped (`if (!assignee) return`).
RECURSIVE CollectUserStats(_)
CollectUserStats(issues) ==
    IF issues = <<>> THEN <<>>
    ELSE LET sofar == CollectUserStats(SubSeq(issues, 1, Len(issues) - 1))
             issue == issues[Len(issues)]
         IN IF issue.assignee = NoField THEN sofar
            ELSE IF \E i \in 1..Len(sofar) : sofar[i].name = issue.assignee
                 THEN [i \in 1..Len(sofar) |->
                          IF sofar[i].name = issue.assignee
                          THEN CountAssigned(sofar[i], issue) ELSE sofar[i]]
                 ELSE Append(sofar, CountAssigned(NewUserStats(issue.assignee), issue))

RecentActivityLength == 5

\* Math.round(avg * 100) / 100 of the ages, 0 without ages; the entries of
\* recent_activity have no `updated`, so its sort leaves them in place, and
\* slice(0, 5) keeps the first five.
UserEntry(stats) ==
    [name |-> stats.name, total_assigned |-> stats.total_assigned,
     in_progress |-> stats.in_progress, open |-> stats.open, done |-> stats.done,
     high_priority |-> stats.high_priority,
     critical_priority |-> stats.critical_priority, overdue |-> stats.overdue,
     avg_age_days |-> IF stats.total_assigned > 0
                      THEN Rat(MathRound(100 * stats.ageSum, stats.total_assigned), 100)
                      ELSE Rat(0, 1),
     recent_activity |->
         SubSeq(stats.recent_activity, 1,
                IF Len(stats.recent_activity) < RecentActivityLength
                THEN Len(stats.recent_activity) ELSE RecentActivityLength)]

\* Array.prototype.sort (stable) by descending total_assigned
InsertUser(sorted, x) ==
    LET before == {i \in 1..Len(sorted) : x.total_assigned > sorted[i].total_assigned}
        at == IF before = {} THEN Len(sorted) + 1
              ELSE CHOOSE i \in before : \A j \in before : i <= j
    IN SubSeq(sorted, 1, at - 1) \o <<x>> \o SubSeq(sorted, at, Len(sorted))

\* The users left in the order of their first issues.
UsersInInsertionOrder(s) == s

RECURSIVE SortByWorkload(_)
SortByWorkload(s) ==
    IF s = <<>> THEN <<>>
    ELSE InsertUser(SortByWorkload(SubSeq(s, 1, Len(s) - 1)), s[Len(s)])

analyzeUserWorkload(allAssigned, inProgressLength, specificUser) ==
    LET userStats == CollectUserStats(allAssigned)
        sortedUsers == SortByWorkload([i \in 1..Len(userStats) |-> UserEntry(userStats[i])])
        matches(u) == Includes(toLowerCase(u.name), toLowerCase(specificUser.chars))
    IN [total_users |-> Len(sortedUsers),
        users |-> IF ~Falsy(specificUser) THEN SelectSeq(sortedUsers, matches)
                  ELSE sortedUsers,
        summary |->
            [total_assigned_issues |-> Len(allAssigned),
             total_in_progress |-> inProgressLength,
             avg_workload |-> IF Len(sortedUsers) > 0
                              THEN Rat(MathRound(100 * Len(allAssigned), Len(sortedUsers)), 100)
                              ELSE Rat(0, 1)]]

BalancedSpread == 5
ModerateSpread == 15

RECURSIVE MaxOf(_)
MaxOf(s) == IF Len(s) = 1 THEN s[1] ELSE Max(s[1], MaxOf(Tail(s)))
RECURSIVE MinOf(_)
MinOf(s) ==
    IF Len(s) = 1 THEN s[1]
    ELSE LET rest == MinOf(Tail(s)) IN IF s[1] <= rest THEN s[1] ELSE rest

\* The balance with `< 5` and `< 15` in place of `<= 5` and `<= 15`.
WorkloadBalanceBelow(maxWorkload, minWorkload) ==
    IF maxWorkload - minWorkload < BalancedSpread THEN "WELL_BALANCED"
    ELSE IF maxWorkload - minWorkload < ModerateSpread THEN "MODERATE_IMBALANCE"
    ELSE "SIGNIFICANT_IMBALANCE"

WorkloadBalance(maxWorkload, minWorkload) ==
    IF maxWorkload - minWorkload <= BalancedSpread THEN "WELL_BALANCED"
    ELSE IF maxWorkload - minWorkload <= ModerateSpread THEN "MODERATE_IMBALANCE"
    ELSE "SIGNIFICANT_IMBALANCE"

\* total_assigned > avgWorkload * 1.5 and total_assigned < avgWorkload * 0.5
\* with avgWorkload = sum / count, in whole numbers.
IsOverloaded(u, sum, count) == 2 * count * u.total_assigned > 3 * sum
IsUnderutilized(u, sum, count) == 2 * count * u.total_assigned < sum
HasOverdue(u) == u.overdue > 0
\* critical_priority + high_priority > total_assigned * 0.5
IsHighPriorityUser(u) == 2 * (u.critical_priority + u.high_priority) > u.total_assigned

WorkloadSum(users) == SumSeq([i \in 1..Len(users) |-> users[i].total_assigned])
NamesOf(users) == [i \in 1..Len(users) |-> users[i].name]

\* `{}` for no users.
generateCapacityInsights(users) ==
    IF Len(users) = 0 THEN [isEmpty |-> TRUE]
    ELSE LET workloads == [i \in 1..Len(users) |-> users[i].total_assigned]
             sum == SumSeq(workloads)
             count == Len(workloads)
             maxWorkload == MaxOf(workloads)
             minWorkload == MinOf(workloads)
         IN [isEmpty |-> FALSE,
             distribution |->
                 [average_workload |-> Rat(MathRound(100 * sum, count), 100),
                  max_workload |-> maxWorkload,
                  min_workload |-> minWorkload,
                  workload_variance |-> maxWorkload - minWorkload],
             capacity_concerns |->
                 [overloaded_users |->
                      SelectSeq(users, LAMBDA u : IsOverloaded(u, sum, count)),
                  underutilized_users |->
                      SelectSeq(users, LAMBDA u : IsUnderutilized(u, sum, count)),
                  users_with_overdue |-> SelectSeq(users, HasOverdue)],
             workload_balance |-> WorkloadBalance(maxWorkload, minWorkload)]

NoUsersLine == [text |-> "No assigned users found in the analyzed scope.", users |-> <<>>]
BalancedLine ==
    [text |-> "Workload distribution appears balanced. Continue monitoring for changes.",
     users |-> <<>>]

\* The recommendations with the balanced line added at the end in every
\* case.
RecommendationsAlwaysBalanced(users) ==
    IF Len(users) = 0 THEN <<NoUsersLine>>
    ELSE LET withOverdue == SelectSeq(users, HasOverdue)
         IN (IF Len(withOverdue) > 0
             THEN <<[text |-> "Priority review needed for users with overdue issues",
                     users |-> NamesOf(withOverdue)]>>
             ELSE <<>>)
            \o <<BalancedLine>>

\* A recommendation is its fixed words and the users it names.
generateWorkloadRecommendations(users) ==
    IF Len(users) = 0 THEN <<NoUsersLine>>
    ELSE LET sum == WorkloadSum(users)
             count == Len(users)
             overloaded == SelectSeq(users, LAMBDA u : IsOverloaded(u, sum, count))
             underutilized ==
                 SelectSeq(users, LAMBDA u : IsUnderutilized(u, sum, count)
                                                /\ u.total_assigned > 0)
             withOverdue == SelectSeq(users, HasOverdue)
             highPriorityUsers == SelectSeq(users, IsHighPriorityUser)
             recommendations ==
                 (IF Len(overloaded) > 0
                  THEN <<[text |-> "Consider redistributing work from overloaded users",
                          users |-> NamesOf(overloaded)]>>
                  ELSE <<>>)
                 \o (IF Len(underutilized) > 0 /\ Len(overloaded) > 0
                     THEN <<[text |-> "Consider assigning more work to underutilized users",
                             users |-> NamesOf(underutilized)]>>
                     ELSE <<>>)
                 \o (IF Len(withOverdue) > 0
                     THEN <<[text |-> "Priority review needed for users with overdue issues",
                             users |-> NamesOf(withOverdue)]>>
                     ELSE <<>>)
                 \o (IF Len(highPriorityUsers) > 0
                     THEN <<[text |-> "Users handling high percentage of critical/high priority work may need support",
                             users |-> NamesOf(highPriorityUsers)]>>
                     ELSE <<>>)
         IN IF recommendations = <<>> THEN <<BalancedLine>> ELSE recommendations

\* getUserWorkload: two fetches in sequence (assigned, in progress).
getUserWorkload(user, assignedFetch, inProgressFetch) ==
    IF ~assignedFetch.ok THEN ErrorText(<<"Error analyzing user workload">>, assignedFetch.error)
    ELSE IF ~inProgressFetch.ok
         THEN ErrorText(<<"Error analyzing user workload">>, inProgressFetch.error)
         ELSE LET workloadAnalysis == analyzeUserWorkload(IssuesOf(assignedFetch),
                                                          LengthOf(inProgressFetch), user)
              IN Success([analysis_scope |-> IF Falsy(user) THEN "All users"
                                             ELSE "Specific user",
                          workload_analysis |-> workloadAnalysis,
                          capacity_insights |->
                              generateCapacityInsights(workloadAnalysis.users),
                          recommendations |->
                              generateWorkloadRecommendations(workloadAnalysis.users)])

AssignedIssues ==
    [assignee : {NoField, uAlice, uBob}, status : {"To Do", "In Progress", "Done"},
     priority : {NoField, "High", "Critical"}, ageDays : {10, 90}]
UserArguments == {NullText, Str(uAl)}

GetUserWorkload ==
    /\ pc = "ready"
    /\ \/ \E user \in UserArguments, issues \in SeqsUpTo(AssignedIssues, MaxAssigned),
             inProgressLength \in {0, 1} :
             /\ call' = [tool |-> "get_user_workload", user |-> user,
                         assignedFetch |-> FetchOk(IssueList(issues))]
             /\ result' = getUserWorkload(user, FetchOk(IssueList(issues)),
                                          FetchOk(IssuesOfLength(inProgressLength)))
       \/ \E user \in UserArguments, failing \in 1..2, failed \in FailedFetches :
             LET fetch(k) == IF k = failing THEN failed
                             ELSE IF k = 1 THEN FetchOk(EmptyList)
                             ELSE FetchOk(IssuesOfLength(0))
             IN /\ call' = [tool |-> "get_user_workload", user |-> user,
                            assignedFetch |-> fetch(1)]
                /\ result' = getUserWorkload(user, fetch(1), fetch(2))
    /\ pc' = "done"
    /\ UNCHANGED <<config, stages, locals>>

NextWorkload == GetUserWorkload \/ Return
SpecWorkload == Init /\ [][NextWorkload]_vars

(***************************************************************************)
(* Claims on get_user_workload.                                            *)
(***************************************************************************)
WorkloadReportMade ==
    pc = "done" /\ call.tool = "get_user_workload" /\ result.kind = "report"

AssignedInput == call.assignedFetch.data.issues
WorkloadUsers == result.data.workload_analysis.users

\* C11: an aggregation accounts for every input issue; an issue without an
\* assignee goes to a named bucket and is never dropped.  For the workload
\* report over all users, which has no bucket for unassigned issues, the
\* per-user totals have to add up to the number of input issues.
C11_EveryIssueCounted ==
    (WorkloadReportMade /\ Falsy(call.user))
        => SumSeq([i \in 1..Len(WorkloadUsers) |-> WorkloadUsers[i].total_assigned])
               = Len(AssignedInput)

(***************************************************************************)
(* analyzeAllComponents, the step of `Object.values(componentStats)        *)
(* .forEach` for one component: its statistics become the reported         *)
(* component and the component is pushed to one of the three buckets.      *)
(* The statistics are the inputs: total, open, bugs, recent, stale as      *)
(* the counting loop can leave them (bugs, open, recent <= total and       *)
(* stale <= open).  On these inputs the exact score and the score in       *)
(* double arithmetic are the same number.                                  *)
(***************************************************************************)
MaxComponentTotal == 20   \* issues counted for one component

BucketOf(component) ==
    IF component.health_score >= HealthyScore THEN "healthy"
    ELSE IF component.health_score >= ConcernScore THEN "concern"
    ELSE "critical"

\* none, half or all of n
Share(k, n) == IF k = 0 THEN 0 ELSE IF k = 1 THEN n \div 2 ELSE n

\* bugs are none, half or all of the issues; stale issues none, half or all
\* of the open ones
ComponentStatistics ==
    {[name |-> "ui", total |-> t, open |-> o, bugs |-> Share(b, t), recent |-> r,
      stale |-> Share(s, o), ageSum |-> 0] :
        t \in 0..MaxComponentTotal, o \in 0..MaxComponentTotal,
        b \in 0..2, r \in {0, 1}, s \in 0..2}

PossibleStatistics ==
    {st \in ComponentStatistics : st.open <= st.total /\ st.recent <= st.total}

ScoreComponent ==
    /\ pc = "ready"
    /\ \E stats \in PossibleStatistics :
          /\ call' = [tool |-> "analyzeAllComponents", stats |-> stats]
          /\ result' = [kind |-> "component", component |-> ComponentEntry(stats),
                        bucket |-> BucketOf(ComponentEntry(stats))]
    /\ pc' = "done"
    /\ UNCHANGED <<config, stages, locals>>

NextComponent == ScoreComponent \/ Return
SpecComponent == Init /\ [][NextComponent]_vars

ComponentScored == pc = "done" /\ call.tool = "analyzeAllComponents"

C12_Scenario ==
    /\ ComponentScored
    /\ call.stats.total = 20
    /\ call.stats.bugs = 10
    /\ call.stats.open = 20
    /\ call.stats.stale = 0
    /\ call.stats.recent = 0

\* C12 as stated: the component with total=20, bugs=10, open=20, stale=0 and
\* no recent issue has health score 20 and is in the critical bucket.
C12_ScenarioScores20 ==
    C12_Scenario => (result.component.health_score = 20 /\ result.bucket = "critical")

\* C12 amended: that component has health score 45 (100 - 50*0.5 - 40*0
\* - 30*1) and is in the critical bucket.
C12_ScenarioScores45 ==
    C12_Scenario => (result.component.health_score = 45 /\ result.bucket = "critical")

C12_Witness == C12_Scenario /\ result.bucket = "critical"

(***************************************************************************)
(* The two scoring functions on their own: calculateReadinessScore on an   *)
(* analysis and calculateComponentHealthScore on a component's statistics  *)
(* and ratios, the inputs drawn from bounded sets.                         *)
(***************************************************************************)
MaxScoreCount == 4   \* issue counts and ratio denominators of the scoring inputs

\* n/d in lowest terms, 0 <= n/d <= 1
Ratios ==
    {r \in {Rat(n, d) : n \in 0..MaxScoreCount, d \in 1..MaxScoreCount} :
        /\ r.num <= r.den
        /\ ~\E k \in 2..MaxScoreCount : r.num % k = 0 /\ r.den % k = 0}

CompletionValues == {0, 25, 49, 50, 75, 80, 100}

ReadinessInputs ==
    {[completion_metrics |-> [completion_percentage |-> c, remaining_issues |-> rem],
      risk_factors |-> [critical_open_issues |-> crit, blocked_issues |-> bl,
                        unassigned_issues |-> un]] :
        c \in CompletionValues, rem \in 0..MaxScoreCount, crit \in 0..MaxScoreCount,
        bl \in 0..MaxScoreCount, un \in 0..MaxScoreCount}

PossibleReadinessInputs ==
    {a \in ReadinessInputs :
        /\ a.risk_factors.unassigned_issues <= a.completion_metrics.remaining_issues
        /\ a.risk_factors.critical_open_issues <= a.completion_metrics.remaining_issues}

HealthInputs ==
    {[stats |-> [total |-> t, open |-> o, recent |-> r], defectRatio |-> d, staleness |-> s] :
        t \in 0..MaxScoreCount, o \in 0..MaxScoreCount, r \in {0, 1},
        d \in Ratios, s \in Ratios}

PossibleHealthInputs ==
    {h \in HealthInputs : h.stats.open <= h.stats.total /\ h.stats.recent <= h.stats.total}

CalculateReadinessScore ==
    /\ pc = "ready"
    /\ \E analysis \in PossibleReadinessInputs :
          /\ call' = [tool |-> "calculateReadinessScore", analysis |-> analysis]
          /\ result' = [kind |-> "score", score |-> calculateReadinessScore(analysis)]
    /\ pc' = "done"
    /\ UNCHANGED <<config, stages, locals>>

CalculateComponentHealthScore ==
    /\ pc = "ready"
    /\ \E h \in PossibleHealthInputs :
          /\ call' = [tool |-> "calculateComponentHealthScore", stats |-> h.stats,
                      defectRatio |-> h.defectRatio, staleness |-> h.staleness]
          /\ result' = [kind |-> "score",
                        score |-> calculateComponentHealthScore(h.stats, h.defectRatio,
                                                                h.staleness)]
    /\ pc' = "done"
    /\ UNCHANGED <<config, stages, locals>>

NextScores == CalculateReadinessScore \/ CalculateComponentHealthScore \/ Return
SpecScores == Init /\ [][NextScores]_vars

ReadinessScored == pc = "done" /\ call.tool = "calculateReadinessScore"
HealthScored == pc = "done" /\ call.tool = "calculateComponentHealthScore"

\* unassigned share of the remaining issues (0 without remaining issues)
UnassignedShare(a) ==
    IF a.completion_metrics.remaining_issues > 0
    THEN Rat(a.risk_factors.unassigned_issues, a.completion_metrics.remaining_issues)
    ELSE Rat(0, 1)

OpenRatio(stats) == IF stats.total > 0 THEN Rat(stats.open, stats.total) ELSE Rat(0, 1)

\* The analyses that differ from a in one penalty input only, that one
\* being higher: lower completion %, more critical issues, more blocked
\* issues, or a higher unassigned share (of whatever remaining count).
ReadinessPenaltyRaised(a) ==
    {[a EXCEPT !.completion_metrics.completion_percentage = c] :
        c \in {x \in CompletionValues : x < a.completion_metrics.completion_percentage}}
    \cup {[a EXCEPT !.risk_factors.critical_open_issues = n] :
            n \in {x \in 0..MaxScoreCount : x > a.risk_factors.critical_open_issues}}
    \cup {[a EXCEPT !.risk_factors.blocked_issues = n] :
            n \in {x \in 0..MaxScoreCount : x > a.risk_factors.blocked_issues}}
    \cup {b \in {[a EXCEPT !.completion_metrics.remaining_issues = rem,
                           !.risk_factors.unassigned_issues = un] :
                    rem \in 0..MaxScoreCount, un \in 0..MaxScoreCount} :
            /\ b.risk_factors.unassigned_issues <= b.completion_metrics.remaining_issues
            /\ RatLess(UnassignedShare(a), UnassignedShare(b))}

\* The same for the health inputs (the recent-activity flag is kept):
\* higher defect ratio, higher staleness, or higher open ratio.
HealthPenaltyRaised(h) ==
    {[h EXCEPT !.defectRatio = d] : d \in {x \in Ratios : RatLess(h.defectRatio, x)}}
    \cup {[h EXCEPT !.staleness = s] : s \in {x \in Ratios : RatLess(h.staleness, x)}}
    \cup {b \in {[h EXCEPT !.stats.total = t, !.stats.open = o] :
                    t \in 0..MaxScoreCount, o \in 0..MaxScoreCount} :
            /\ b.stats.open <= b.stats.total
            /\ RatLess(OpenRatio(h.stats), OpenRatio(b.stats))}

HealthCall == [stats |-> call.stats, defectRatio |-> call.defectRatio,
               staleness |-> call.staleness]

\* C13: raising one penalty input (lower completion %, more critical or
\* blocked issues, higher unassigned share) with the others fixed never
\* raises the readiness score; raising the defect, staleness or open ratio
\* with the others and the recent-activity flag fixed never raises the
\* component health score.
C13_ScoresNonIncreasing ==
    /\ ReadinessScored =>
          \A b \in ReadinessPenaltyRaised(call.analysis) :
              calculateReadinessScore(b) <= result.score
    /\ HealthScored =>
          \A b \in HealthPenaltyRaised(HealthCall) :
              calculateComponentHealthScore(b.stats, b.defectRatio, b.staleness)
                  <= result.score

\* A score that a higher unassigned share, or a higher open ratio, brings
\* strictly down.
C13_Witness ==
    \/ /\ ReadinessScored
       /\ \E b \in ReadinessPenaltyRaised(call.analysis) :
             /\ RatLess(UnassignedShare(call.analysis), UnassignedShare(b))
             /\ calculateReadinessScore(b) < result.score
    \/ /\ HealthScored
       /\ \E b \in HealthPenaltyRaised(HealthCall) :
             /\ RatLess(OpenRatio(call.stats), OpenRatio(b.stats))
             /\ calculateComponentHealthScore(b.stats, b.defectRatio, b.staleness)
                    < result.score

(***************************************************************************)
(* Further claims on get_sprint_insights.                                  *)
(***************************************************************************)
\* the named board and a configured one are unrelated: neither name, in
\* lower case, contains the other
Unrelated(board, named) ==
    /\ ~Includes(toLowerCase(board.chars), toLowerCase(named.chars))
    /\ ~Includes(toLowerCase(named.chars), toLowerCase(board.chars))

\* C14: with boards configured, a board_name that matches no configured
\* board (not equal and not a substring either way, case-insensitively) is
\* still the board that is queried and reported.
C14_UnmatchedBoardIsKept ==
    (/\ pc = "done" /\ call.tool = "get_sprint_insights"
     /\ Len(config.configuredBoards) > 0
     /\ ~Falsy(call.board_name)
     /\ \A i \in 1..Len(config.configuredBoards) :
           Unrelated(config.configuredBoards[i], call.board_name)
     /\ result.kind = "report")
    => result.data.board_name = call.board_name

(***************************************************************************)
(* get_sprint_insights, one pass of `for (const sprint of targetSprints)`: *)
(* the insight of one sprint.  sprint.columns is an object: its entries    *)
(* come in insertion order and no two have the same column name.           *)
(***************************************************************************)
MaxColumns == 3      \* columns of a sprint

cnClosed == <<"C","l","o","s","e","d">>
cnCodeReview == <<"C","o","d","e"," ","R","e","v","i","e","w">>
cnReviewComplete == <<"R","e","v","i","e","w"," ","C","o","m","p","l","e","t","e">>
cnTESTING == <<"T","E","S","T","I","N","G">>

ColumnNames ==
    {cnToDo, cnInProgress, cnDone, cnClosed, cnCodeReview, cnReviewComplete, cnTESTING}

\* The issues of the columns, in turn: two without assignee (a key stub and
\* an object), one without assignee, two without assignee, two objects
\* (one assigned to alice, one to 'Unassigned'), none.
ColumnIssueLists ==
    << <<StubIssue("i1"), ColumnIssue("i2", NoField)>>,
       <<ColumnIssue("i3", NoField)>>,
       <<StubIssue("i4"), StubIssue("i5")>>,
       <<ColumnIssue("i6", "alice"), ColumnIssue("i7", "Unassigned")>>,
       <<>> >>

\* Up to MaxColumns columns of different names, in any order; the k-th
\* column holds the issues of a list of ColumnIssueLists, the lists taken
\* in turn from any starting point.
ColumnSets ==
    {[k \in 1..Len(names) |->
         [name |-> names[k],
          issues |-> ColumnIssueLists[((k - 1 + start) % Len(ColumnIssueLists)) + 1]]] :
        names \in {ns \in SeqsUpTo(ColumnNames, MaxColumns) :
                      \A i, j \in 1..Len(ns) : i # j => ns[i] # ns[j]},
        start \in 0..(Len(ColumnIssueLists) - 1)}

\* A sprint of up to MaxSprintIssues issues (key stubs), some of them done.
LargeColumns(done, todo) ==
    << [name |-> cnDone, issues |-> [k \in 1..done |-> StubIssue("i")]],
       [name |-> cnToDo, issues |-> [k \in 1..todo |-> StubIssue("i")]] >>

InsightSprints ==
    {[id |-> 1, state |-> "active", hasColumns |-> FALSE, columns |-> <<>>]}
        \cup {[id |-> 1, state |-> "active", hasColumns |-> TRUE, columns |-> cols] :
                 cols \in ColumnSets}
        \cup UNION {{[id |-> 1, state |-> "active", hasColumns |-> TRUE,
                      columns |-> LargeColumns(done, total - done)] :
                        done \in 0..total} : total \in 1..MaxSprintIssues}

AnalyzeSprint ==
    /\ pc = "ready"
    /\ \E sprint \in InsightSprints :
          /\ call' = [tool |-> "sprintInsight", sprint |-> sprint]
          /\ result' = [kind |-> "insight", insight |-> SprintInsight(sprint)]
    /\ pc' = "done"
    /\ UNCHANGED <<config, stages, locals>>

NextInsight == AnalyzeSprint \/ Return
SpecInsight == Init /\ [][NextInsight]_vars

(***************************************************************************)
(* Claims on the insight of one sprint.                                    *)
(***************************************************************************)
SprintAnalysed == pc = "done" /\ call.tool = "sprintInsight"

InputColumns == IF call.sprint.hasColumns THEN call.sprint.columns ELSE <<>>
Velocity == result.insight.progress_metrics.velocity_indicators
IssueAnalysis == result.insight.issue_analysis

\* The bucket the classification rule gives each column name of the input
\* domain, worked out by hand: 'Review Complete' holds a done word and an
\* in-progress word and is done; 'TESTING' matches in upper case.
ExpectedBucket(columnName) ==
    IF columnName \in {cnDone, cnClosed, cnReviewComplete} THEN "done"
    ELSE IF columnName \in {cnInProgress, cnCodeReview, cnTESTING} THEN "in_progress"
    ELSE "todo"

ExpectedCount(bucket) ==
    SumSeq([k \in 1..Len(InputColumns) |->
               IF ExpectedBucket(InputColumns[k].name) = bucket
               THEN Len(InputColumns[k].issues) ELSE 0])

InputTotal == SumSeq([k \in 1..Len(InputColumns) |-> Len(InputColumns[k].issues)])

C15_Scenario ==
    /\ SprintAnalysed
    /\ Len(InputColumns) = 3
    /\ InputColumns[1].name = cnToDo /\ Len(InputColumns[1].issues) = 2
    /\ InputColumns[2].name = cnInProgress /\ Len(InputColumns[2].issues) = 1
    /\ InputColumns[3].name = cnDone /\ Len(InputColumns[3].issues) = 2
    /\ \A k \in 1..3 : \A i \in 1..Len(InputColumns[k].issues) :
          InputColumns[k].issues[i].assignee = NoField

\* C15: every column counts in exactly one velocity bucket, done words
\* ('done', 'closed', 'complete') before in-progress words ('progress',
\* 'review', 'testing'), anything else todo, matched case-insensitively; the
\* sprint {To Do: 2, In Progress: 1, Done: 2 issues}, none assigned, gives
\* total 5, done 2, in progress 1, todo 2, completion 40 %, unassigned 5.
C15_VelocityBuckets ==
    SprintAnalysed =>
        /\ Velocity.done_issues = ExpectedCount("done")
        /\ Velocity.in_progress_issues = ExpectedCount("in_progress")
        /\ Velocity.todo_issues = ExpectedCount("todo")
        /\ Velocity.done_issues + Velocity.in_progress_issues + Velocity.todo_issues
               = InputTotal
        /\ C15_Scenario =>
              /\ IssueAnalysis.total_issues = 5
              /\ Velocity.done_issues = 2
              /\ Velocity.in_progress_issues = 1
              /\ Velocity.todo_issues = 2
              /\ result.insight.progress_metrics.completion_percentage = 40
              /\ IssueAnalysis.unassigned_count = 5

\* The scenario sprint has been analysed.
C15_Witness == C15_Scenario /\ IssueAnalysis.total_issues = 5

\* C16: completion_percentage is round(100 * done / total), within [0,100],
\* and 0 for a sprint without issues or without columns.
C16_CompletionPercentage ==
    SprintAnalysed =>
        LET pct == result.insight.progress_metrics.completion_percentage
            done == ExpectedCount("done")
        IN /\ pct >= 0 /\ pct <= 100
           /\ InputTotal = 0 => pct = 0
           /\ InputTotal > 0 =>
                 /\ (2 * pct - 1) * InputTotal <= 200 * done
                 /\ 200 * done < (2 * pct + 1) * InputTotal

(***************************************************************************)
(* analyze_duplicates: the empty pool and the similarity bands.           *)
(***************************************************************************)
DuplicateAnalysis == result.data.duplicate_analysis

\* C17: a search that returns no issues, or a response without an issues
\* field, is answered by a report and not by an error: no potential
\* duplicates, empty high, medium and all lists, action PROCEED_WITH_ISSUE,
\* confidence High and no top candidate.
C17_EmptyPoolReport ==
    (/\ pc = "done" /\ call.tool = "analyze_duplicates"
     /\ call.issueFetch.ok /\ call.searchFetch.ok
     /\ (~call.searchFetch.data.hasIssues \/ call.searchFetch.data.issues = <<>>)) =>
        /\ ~result.isError
        /\ DuplicateAnalysis.potential_duplicates_found = 0
        /\ DuplicateAnalysis.high_similarity_matches = <<>>
        /\ DuplicateAnalysis.medium_similarity_matches = <<>>
        /\ DuplicateAnalysis.all_matches = <<>>
        /\ Advice.action = "PROCEED_WITH_ISSUE"
        /\ Advice.confidence = "High"
        /\ Advice.top_candidate = NullCandidate

\* The search response has no issues field and the report is made.
C17_Witness ==
    /\ DuplicateReportMade
    /\ ~call.searchFetch.data.hasIssues
    /\ DuplicateAnalysis.potential_duplicates_found = 0

\* The entries of s at the indices idx, in the order of s.
PickedAt(s, idx) ==
    [k \in 1..Cardinality(idx) |->
        s[CHOOSE i \in idx : Cardinality({j \in idx : j < i}) = k - 1]]

ScoreAboveHigh(d) == 10 * d.similarity_score.num > 7 * d.similarity_score.den
ScoreAboveMedium(d) == 10 * d.similarity_score.num > 4 * d.similarity_score.den
HighIndices == {i \in 1..Len(Matches) : ScoreAboveHigh(Matches[i])}
MediumIndices ==
    {i \in 1..Len(Matches) : ScoreAboveMedium(Matches[i]) /\ ~ScoreAboveHigh(Matches[i])}

\* C18: high_similarity_matches is exactly the candidates of all_matches
\* with score > 0.7 and medium_similarity_matches exactly those with
\* 0.4 < score <= 0.7, both in the order of all_matches; the two lists
\* share no candidate, and a candidate with score <= 0.4 is in all_matches
\* only.
C18_SimilarityBands ==
    DuplicateReportMade =>
        /\ DuplicateAnalysis.high_similarity_matches = PickedAt(Matches, HighIndices)
        /\ DuplicateAnalysis.medium_similarity_matches = PickedAt(Matches, MediumIndices)
        /\ Range(DuplicateAnalysis.high_similarity_matches)
              \cap Range(DuplicateAnalysis.medium_similarity_matches) = {}
        /\ \A i \in 1..Len(Matches) :
              ~ScoreAboveMedium(Matches[i]) =>
                 /\ Matches[i] \notin Range(DuplicateAnalysis.high_similarity_matches)
                 /\ Matches[i] \notin Range(DuplicateAnalysis.medium_similarity_matches)

\* One candidate above 0.7, one at 0.7 exactly and one at 0.4 exactly: the
\* first is a high match, the second a medium match and the third neither.
C18_Witness ==
    /\ DuplicateReportMade
    /\ Len(Matches) = 3
    /\ ScoreAboveHigh(Matches[1])
    /\ RatEq(Matches[2].similarity_score, HighSimilarity)
    /\ RatEq(Matches[3].similarity_score, MediumSimilarity)
    /\ Len(DuplicateAnalysis.high_similarity_matches) = 1
    /\ Len(DuplicateAnalysis.medium_similarity_matches) = 1

(***************************************************************************)
(* extractKeywords.                                                        *)
(***************************************************************************)
wtab == <<"\t">>
KeywordPieces == {wLogin, wlogin, wfails, wwith, wtimeOutBang, wlogDotFail, wtab}
KeywordTexts ==
    {Sentence(ws) : ws \in SeqsUpTo(KeywordPieces, MaxPieces)} \cup {NullText}

\* A direct use of the helper extractKeywords on one text.
ExtractKeywords ==
    /\ pc = "ready"
    /\ \E text \in KeywordTexts :
          /\ call' = [tool |-> "extractKeywords", text |-> text]
          /\ result' = [kind |-> "keywords", words |-> extractKeywords(text)]
    /\ pc' = "done"
    /\ UNCHANGED <<config, stages, locals>>

NextKeywords == ExtractKeywords \/ Return
SpecKeywords == Init /\ [][NextKeywords]_vars

KeywordsExtracted == pc = "done" /\ call.tool = "extractKeywords"

\* The characters that separate tokens: whitespace, and every character
\* that is neither a word character nor a hyphen. Lower-casing keeps a
\* character on its side of this division.
IsSeparator(c) == c \in Spaces \/ (c \notin WordChars /\ c # "-")
\* The tokens are the maximal runs of characters that are not separators,
\* in lower case; a token is named by the position of its first character.
TokenStarts ==
    {i \in 1..Len(call.text.chars) :
        /\ ~IsSeparator(call.text.chars[i])
        /\ i = 1 \/ IsSeparator(call.text.chars[i - 1])}
TokenEnd(i) ==
    CHOOSE j \in i..Len(call.text.chars) :
        /\ \A k \in i..j : ~IsSeparator(call.text.chars[k])
        /\ j = Len(call.text.chars) \/ IsSeparator(call.text.chars[j + 1])
TokenAt(i) == toLowerCase(SubSeq(call.text.chars, i, TokenEnd(i)))
KeptTokens ==
    LET token == [i \in TokenStarts |-> TokenAt(i)]
    IN {<<i, token[i]>> : i \in {k \in TokenStarts :
                                    Len(token[k]) > 3 /\ token[k] \notin stopWords}}

\* C19: extractKeywords returns the tokens of the lower-cased text that are
\* longer than 3 characters and are not stop words, each once, in the order
\* of their first occurrences; a token is a maximal run of word characters
\* and hyphens. For an empty or absent text it returns the empty list.
C19_KeywordsOfText ==
    KeywordsExtracted =>
        IF call.text.isNull \/ call.text.chars = <<>>
        THEN result.words = <<>>
        ELSE LET kept == KeptTokens
                 first == [w \in {t[2] : t \in kept} |->
                              CHOOSE i \in {t[1] : t \in kept} :
                                  /\ <<i, w>> \in kept
                                  /\ \A t \in kept : t[2] = w => i <= t[1]]
             IN /\ Range(result.words) = DOMAIN first
                /\ \A i, j \in 1..Len(result.words) :
                      i < j => /\ result.words[i] # result.words[j]
                               /\ first[result.words[i]] < first[result.words[j]]

\* "Login with time-out! login": upper case, a stop word of four letters,
\* punctuation, a hyphen and a repeated token; two keywords are returned.
C19_Witness ==
    /\ KeywordsExtracted
    /\ call.text = Sentence(<<wLogin, wwith, wtimeOutBang, wlogin>>)
    /\ result.words = <<wlogin, <<"t","i","m","e","-","o","u","t">> >>

(***************************************************************************)
(* get_component_health for one component.                                 *)
(***************************************************************************)
MaxRun == 3          \* issues of one kind in the component's issue list
OldIssueDays == 60
HighActivity == 5
MediumActivity == 2
IncreasingActivity == 3
DebtIssues == 5
LowCompletion == 70
BusFactor == 2

\* A distribution object: one entry per key, in insertion order.
RECURSIVE Tally(_)
Tally(names) ==
    IF names = <<>> THEN <<>>
    ELSE LET init == Tally(SubSeq(names, 1, Len(names) - 1))
             last == names[Len(names)]
         IN IF \E k \in 1..Len(init) : init[k].name = last
            THEN [k \in 1..Len(init) |->
                     IF init[k].name = last
                     THEN [init[k] EXCEPT !.count = @ + 1] ELSE init[k]]
            ELSE Append(init, [name |-> last, count |-> 1])

analyzeSingleComponent(allIssues, openIssues, recentIssues) ==
    LET totalIssues == Len(allIssues)
        totalOpen == Len(openIssues)
        recentCount == Len(recentIssues)
        bugCount == Len(SelectSeq(openIssues, LAMBDA issue : issue.issuetype \in BugTypeNames))
        priorities == [i \in 1..totalOpen |->
                          IF openIssues[i].priority = NoField THEN "Undefined"
                          ELSE openIssues[i].priority]
        assignees == [i \in 1..totalOpen |->
                         IF openIssues[i].assignee = NoField THEN "Unassigned"
                         ELSE openIssues[i].assignee]
        severities == [i \in 1..totalOpen |-> "Unknown"]
        issueAges == [i \in 1..totalOpen |-> openIssues[i].ageDays]
        oldIssues == Len(SelectSeq(issueAges, LAMBDA age : age > OldIssueDays))
    IN [component_metrics |->
            [total_issues |-> totalIssues,
             open_issues |-> totalOpen,
             recent_issues_30_days |-> recentCount,
             bug_issues |-> bugCount,
             average_age_days |->
                 IF totalOpen > 0 THEN Rat(MathRound(100 * SumSeq(issueAges), totalOpen), 100)
                 ELSE Rat(0, 100),
             stale_issues |-> oldIssues,
             completion_rate |-> IF totalIssues > 0
                                 THEN Percent(totalIssues - totalOpen, totalIssues)
                                 ELSE 100],
        issue_distribution |->
            [by_priority |-> Tally(priorities),
             by_assignee |-> Tally(assignees),
             by_severity |-> Tally(severities)],
        health_indicators |->
            [defect_ratio |-> IF totalIssues > 0
                              THEN Rat(Percent(bugCount, totalIssues), 100)
                              ELSE Rat(0, 1),
             maintenance_burden |-> oldIssues,
             recent_activity_level |-> IF recentCount > HighActivity THEN "HIGH"
                                       ELSE IF recentCount > MediumActivity THEN "MEDIUM"
                                       ELSE "LOW"]]

\* generateComponentTrends, single component: component_metrics has no
\* defect_ratio, so `metrics.defect_ratio > 0.3` is false.
SingleComponentTrends(analysis) ==
    LET metrics == analysis.component_metrics
    IN [trend_direction |->
            IF metrics.recent_issues_30_days > IncreasingActivity THEN "INCREASING_ACTIVITY"
            ELSE IF metrics.recent_issues_30_days < 1 THEN "LOW_ACTIVITY"
            ELSE "STABLE",
        maintenance_trend |->
            IF metrics.stale_issues > DebtIssues THEN "INCREASING_DEBT" ELSE "MANAGEABLE",
        quality_trend |-> "STABLE"]

\* generateComponentRecommendations, single component; a recommendation is
\* named by its first words.
SingleComponentRecommendations(analysis) ==
    LET metrics == analysis.component_metrics
        named == SelectSeq(analysis.issue_distribution.by_assignee,
                           LAMBDA a : a.name # "Unassigned")
        recommendations ==
            (IF metrics.stale_issues > DebtIssues THEN <<"Address stale issues">> ELSE <<>>)
            \o (IF metrics.completion_rate < LowCompletion
                THEN <<"Low completion rate">> ELSE <<>>)
            \o (IF Len(named) < BusFactor
                THEN <<"Consider adding additional team members">> ELSE <<>>)
    IN IF recommendations = <<>> THEN <<"Component health appears good">>
       ELSE recommendations

\* getComponentHealth with a component: three fetches in sequence (all,
\* open, recent); the first failure is caught and reported.
getSingleComponentHealth(component, allFetch, openFetch, recentFetch) ==
    IF ~allFetch.ok THEN ErrorText(<<"Error analyzing component health">>, allFetch.error)
    ELSE IF ~openFetch.ok THEN ErrorText(<<"Error analyzing component health">>, openFetch.error)
    ELSE IF ~recentFetch.ok THEN ErrorText(<<"Error analyzing component health">>, recentFetch.error)
    ELSE LET healthAnalysis == analyzeSingleComponent(IssuesOf(allFetch), IssuesOf(openFetch),
                                                      IssuesOf(recentFetch))
         IN Success([component |-> component,
                     health_analysis |-> healthAnalysis,
                     trend_analysis |-> SingleComponentTrends(healthAnalysis),
                     recommendations |-> SingleComponentRecommendations(healthAnalysis)])

\* The issues tagged to the component, as the provider holds them: runs of
\* equal issues.
TaggedIssues ==
    [status : {"In Progress", "Done"}, issuetype : {"Bug", "Task"},
     ageDays : {10, 45, 90}, assignee : {NoField, "alice"}, priority : {"Major"}]
Copies(issue, n) == [i \in 1..n |-> issue]
TaggedIssueLists ==
    {Copies(a, i) \o Copies(b, j) :
        a \in TaggedIssues, b \in TaggedIssues, i \in 0..MaxRun, j \in 0..MaxRun}

\* The provider's answers to the three queries of getComponentHealth:
\* `component = "<name>"`, `... AND status not in (Done, Closed, Resolved)`
\* and `... AND created >= '<30 days ago>'`.
OpenOf(issues) == SelectSeq(issues, LAMBDA issue : issue.status \notin ClosedStatusNames)
RecentOf(issues) == SelectSeq(issues, LAMBDA issue : issue.ageDays <= RecentDays)

GetSingleComponentHealth ==
    /\ pc = "ready"
    /\ \/ \E issues \in TaggedIssueLists :
             LET allFetch == FetchOk(IssueList(issues))
                 openFetch == FetchOk(IssueList(OpenOf(issues)))
                 recentFetch == FetchOk(IssueList(RecentOf(issues)))
             IN /\ call' = [tool |-> "get_component_health", component |-> "ui",
                            allFetch |-> allFetch]
                /\ result' = getSingleComponentHealth("ui", allFetch, openFetch, recentFetch)
       \/ \E failing \in 1..3, failed \in FailedFetches :
             LET fetch(k) == IF k = failing THEN failed ELSE FetchOk(EmptyList)
             IN /\ call' = [tool |-> "get_component_health", component |-> "ui",
                            allFetch |-> fetch(1)]
                /\ result' = getSingleComponentHealth("ui", fetch(1), fetch(2), fetch(3))
    /\ pc' = "done"
    /\ UNCHANGED <<config, stages, locals>>

NextSingle == GetSingleComponentHealth \/ Return
SpecSingle == Init /\ [][NextSingle]_vars

SingleReportMade ==
    pc = "done" /\ call.tool = "get_component_health" /\ ~result.isError
Tagged == IssuesOf(call.allFetch)
TaggedBugs == {i \in 1..Len(Tagged) : Tagged[i].issuetype = "Bug"}
TaggedStale ==
    {i \in 1..Len(Tagged) :
        Tagged[i].status \notin {"Done", "Closed", "Resolved"} /\ Tagged[i].ageDays > 60}
TaggedRecent == {i \in 1..Len(Tagged) : Tagged[i].ageDays <= 30}

\* C20: for one component, defect_ratio is the number of bug-type issues
\* among all issues tagged to the component divided by their total (0 for
\* no issues), stale_issues is the number of open issues older than 60
\* days, and recent_activity_level is HIGH for more than 5 recent issues,
\* MEDIUM for more than 2 and LOW otherwise.
C20_SingleComponentIndicators ==
    SingleReportMade =>
        LET analysis == result.data.health_analysis
            recent == Cardinality(TaggedRecent)
        IN /\ IF Len(Tagged) = 0
              THEN analysis.health_indicators.defect_ratio.num = 0
              ELSE RatEq(analysis.health_indicators.defect_ratio,
                         Rat(Cardinality(TaggedBugs), Len(Tagged)))
           /\ analysis.component_metrics.stale_issues = Cardinality(TaggedStale)
           /\ analysis.health_indicators.recent_activity_level =
                 (IF recent > 5 THEN "HIGH" ELSE IF recent > 2 THEN "MEDIUM" ELSE "LOW")

(***************************************************************************)
(* get_component_health, all components: buckets and fan-out.              *)
(***************************************************************************)
HealthDetails == result.data.component_details
HealthSummary == result.data.component_summary
InputIssues == IssuesOf(call.allFetch)
InputComponentNames ==
    UNION {Range(InputIssues[i].components) : i \in 1..Len(InputIssues)}

\* C21: every component of the input is in exactly one of the lists healthy
\* (score >= 80), concern (60 <= score < 80) and critical (score < 60), and
\* total_components is the sum of the three counts; healthy is in
\* non-increasing order of score, concern and critical in non-decreasing
\* order.
C21_BucketsPartition ==
    HealthReportMade =>
        /\ {ReportedComponents[i].name : i \in 1..Len(ReportedComponents)}
              = InputComponentNames
        /\ Len(ReportedComponents) = Cardinality(InputComponentNames)
        /\ \A i \in 1..Len(HealthDetails.healthy) :
              HealthDetails.healthy[i].health_score >= 80
        /\ \A i \in 1..Len(HealthDetails.concern) :
              /\ HealthDetails.concern[i].health_score >= 60
              /\ HealthDetails.concern[i].health_score < 80
        /\ \A i \in 1..Len(HealthDetails.critical) :
              HealthDetails.critical[i].health_score < 60
        /\ HealthSummary.healthy_components = Len(HealthDetails.healthy)
        /\ HealthSummary.components_of_concern = Len(HealthDetails.concern)
        /\ HealthSummary.critical_components = Len(HealthDetails.critical)
        /\ HealthSummary.total_components
              = HealthSummary.healthy_components + HealthSummary.components_of_concern
                   + HealthSummary.critical_components
        /\ \A i, j \in 1..Len(HealthDetails.healthy) :
              i < j => HealthDetails.healthy[i].health_score
                          >= HealthDetails.healthy[j].health_score
        /\ \A i, j \in 1..Len(HealthDetails.concern) :
              i < j => HealthDetails.concern[i].health_score
                          <= HealthDetails.concern[j].health_score
        /\ \A i, j \in 1..Len(HealthDetails.critical) :
              i < j => HealthDetails.critical[i].health_score
                          <= HealthDetails.critical[j].health_score

\* Two components in the critical list, the one met first in the issues
\* ("ui") with the higher score: the sort has moved it behind "api".
C21_Witness ==
    /\ HealthReportMade
    /\ Len(HealthDetails.critical) = 2
    /\ HealthDetails.critical[1].name = "api"
    /\ HealthDetails.critical[1].health_score < HealthDetails.critical[2].health_score

\* The issues of the input tagged with the component.
TaggedWith(name) ==
    {i \in 1..Len(InputIssues) : name \in Range(InputIssues[i].components)}

\* C22: an issue tagged with n components is counted for each of them and
\* for no other component: every statistic of a component is the count over
\* the issues tagged with it, the totals of the components add up to the
\* sum over the issues of their numbers of components, and for every
\* component stale <= open <= total, bugs <= total and recent <= total.
C22_FanOut ==
    HealthReportMade =>
        /\ \A k \in 1..Len(ReportedComponents) :
              LET c == ReportedComponents[k]
                  mine == TaggedWith(c.name)
                  isOpen(i) == InputIssues[i].status \notin {"Done", "Closed", "Resolved"}
              IN /\ c.total = Cardinality(mine)
                 /\ c.open = Cardinality({i \in mine : isOpen(i)})
                 /\ c.bugs = Cardinality({i \in mine : InputIssues[i].issuetype = "Bug"})
                 /\ c.recent = Cardinality({i \in mine : InputIssues[i].ageDays <= 30})
                 /\ c.stale = Cardinality({i \in mine : isOpen(i) /\ InputIssues[i].ageDays > 60})
                 /\ c.stale <= c.open /\ c.open <= c.total
                 /\ c.bugs <= c.total /\ c.recent <= c.total
        /\ SumSeq([k \in 1..Len(ReportedComponents) |-> ReportedComponents[k].total])
              = SumSeq([i \in 1..Len(InputIssues) |-> Len(InputIssues[i].components)])

\* An issue with two components and an issue with one: "ui" counts both,
\* "api" one.
C22_Witness ==
    /\ HealthReportMade
    /\ Len(InputIssues) = 2
    /\ \E k, l \in 1..Len(ReportedComponents) :
          /\ ReportedComponents[k].name = "ui" /\ ReportedComponents[k].total = 2
          /\ ReportedComponents[l].name = "api" /\ ReportedComponents[l].total = 1

(***************************************************************************)
(* generateCapacityInsights and generateWorkloadRecommendations.           *)
(***************************************************************************)
MaxUsers == 3        \* users given to the capacity insights
uCarol == <<"c","a","r","o","l">>
uDave == <<"d","a","v","e">>
UserNames == <<uAlice, uBob, uCarol, uDave>>
Workloads == {1, 2, 3, 7, 17, 18}

\* The users of a workload analysis, as analyzeUserWorkload leaves them:
\* at least one issue each, by non-increasing total_assigned, distinct
\* names; high_priority is on either side of half the load.
UserLoads ==
    UNION {[total_assigned : {t}, overdue : {0, 1}, critical_priority : {0},
            high_priority : {t \div 2, t \div 2 + 1}] : t \in Workloads}
NamedUsers(loads) ==
    [i \in 1..Len(loads) |->
        [name |-> UserNames[i], total_assigned |-> loads[i].total_assigned,
         overdue |-> loads[i].overdue,
         critical_priority |-> loads[i].critical_priority,
         high_priority |-> loads[i].high_priority]]
AnalysedUsers ==
    {NamedUsers(loads) : loads \in
        {l \in SeqsUpTo(UserLoads, MaxUsers) :
            \A i \in 1..Len(l) - 1 : l[i].total_assigned >= l[i + 1].total_assigned}}

\* The two helpers of getUserWorkload on one list of users.
AnalyseCapacity ==
    /\ pc = "ready"
    /\ \E users \in AnalysedUsers :
          /\ call' = [tool |-> "capacity", users |-> users]
          /\ result' = [kind |-> "capacity",
                        capacity_insights |-> generateCapacityInsights(users),
                        recommendations |-> generateWorkloadRecommendations(users)]
    /\ pc' = "done"
    /\ UNCHANGED <<config, stages, locals>>

NextCapacity == AnalyseCapacity \/ Return
SpecCapacity == Init /\ [][NextCapacity]_vars

CapacityAnalysed == pc = "done" /\ call.tool = "capacity" /\ call.users # <<>>
Loads == {call.users[i].total_assigned : i \in 1..Len(call.users)}
Spread ==
    (CHOOSE a \in Loads : \A b \in Loads : a >= b)
        - (CHOOSE a \in Loads : \A b \in Loads : a <= b)

\* C23: for a non-empty list of users the workload balance is WELL_BALANCED
\* when the largest total_assigned exceeds the smallest by at most 5,
\* MODERATE_IMBALANCE when by more than 5 and at most 15, and
\* SIGNIFICANT_IMBALANCE when by more than 15; one of the three is produced.
C23_WorkloadBalance ==
    CapacityAnalysed =>
        LET balance == result.capacity_insights.workload_balance
            spread == Spread
        IN /\ ~result.capacity_insights.isEmpty
           /\ balance \in {"WELL_BALANCED", "MODERATE_IMBALANCE", "SIGNIFICANT_IMBALANCE"}
           /\ balance = "WELL_BALANCED" <=> spread <= 5
           /\ balance = "MODERATE_IMBALANCE" <=> (spread > 5 /\ spread <= 15)
           /\ balance = "SIGNIFICANT_IMBALANCE" <=> spread > 15

\* The spread is 15 exactly, the upper end of MODERATE_IMBALANCE.
C23_Witness ==
    /\ CapacityAnalysed
    /\ Spread = 15
    /\ result.capacity_insights.workload_balance = "MODERATE_IMBALANCE"

\* A user is flagged when overloaded (above 1.5 times the average load),
\* underutilized (below 0.5 times the average), with overdue issues, or
\* with critical and high issues above half of the load.
Flagged(u) ==
    LET count == Len(call.users)
        sum == SumSeq([i \in 1..count |-> call.users[i].total_assigned])
    IN \/ 2 * count * u.total_assigned > 3 * sum
       \/ 2 * count * u.total_assigned < sum
       \/ u.overdue > 0
       \/ 2 * (u.critical_priority + u.high_priority) > u.total_assigned
IsBalancedLine(r) ==
    r.text = "Workload distribution appears balanced. Continue monitoring for changes."

\* C24: for a non-empty list of users, if no user is flagged the
\* recommendations are the balanced line alone; the recommendations are
\* never empty, and the balanced line is never with another recommendation.
C24_BalancedLine ==
    CapacityAnalysed =>
        LET recommendations == result.recommendations
        IN /\ (\A i \in 1..Len(call.users) : ~Flagged(call.users[i]))
                 => (Len(recommendations) = 1 /\ IsBalancedLine(recommendations[1]))
           /\ Len(recommendations) >= 1
           /\ \A i \in 1..Len(recommendations) :
                 IsBalancedLine(recommendations[i]) => Len(recommendations) = 1

\* Three users with different loads, none flagged: the balanced line alone.
C24_Witness ==
    /\ CapacityAnalysed
    /\ Len(call.users) = 3
    /\ call.users[1].total_assigned > call.users[3].total_assigned
    /\ \A i \in 1..3 : ~Flagged(call.users[i])
    /\ result.recommendations = <<BalancedLine>>

(***************************************************************************)
(* Completion percentages of a release and of one component.               *)
(***************************************************************************)
\* A release of `total` issues of which `open` are open, all of one kind.
OpenOfOneKind(open) == [k \in 1..Len(OpenKinds) |-> IF k = Len(OpenKinds) THEN open ELSE 0]

GetReleaseCompletion ==
    /\ pc = "ready"
    /\ \E total \in 0..MaxSprintIssues :
          \E open \in 0..total :
             /\ call' = [tool |-> "get_release_readiness", version |-> "2.0",
                         versionFetch |-> FetchOk(IssuesOfLength(total)),
                         openFetch |-> FetchOk(IssueList(OpenOfOneKind(open))),
                         blockedFetch |-> FetchOk(IssuesOfLength(0))]
             /\ result' = getReleaseReadiness("2.0", FetchOk(IssuesOfLength(total)),
                                              FetchOk(IssueList(OpenOfOneKind(open))),
                                              FetchOk(IssuesOfLength(0)))
    /\ pc' = "done"
    /\ UNCHANGED <<config, stages, locals>>

\* A component of `total` issues of which `open` are open.
ClosedTask ==
    [status |-> "Done", issuetype |-> "Task", ageDays |-> 45, assignee |-> "alice",
     priority |-> "Major"]
OpenTask == [ClosedTask EXCEPT !.status = "In Progress"]

GetComponentCompletion ==
    /\ pc = "ready"
    /\ \E total \in 0..MaxSprintIssues :
          \E open \in 0..total :
             LET issues == Copies(ClosedTask, total - open) \o Copies(OpenTask, open)
                 allFetch == FetchOk(IssueList(issues))
                 openFetch == FetchOk(IssueList(OpenOf(issues)))
                 recentFetch == FetchOk(IssueList(RecentOf(issues)))
             IN /\ call' = [tool |-> "get_component_health", component |-> "ui",
                            allFetch |-> allFetch]
                /\ result' = getSingleComponentHealth("ui", allFetch, openFetch, recentFetch)
    /\ pc' = "done"
    /\ UNCHANGED <<config, stages, locals>>

NextCompletion == GetReleaseCompletion \/ GetComponentCompletion \/ Return
SpecCompletion == Init /\ [][NextCompletion]_vars

\* round(100 * (total - open) / total), 100 for no issues
ExpectedCompletion(total, open) ==
    IF total = 0 THEN 100 ELSE (200 * (total - open) + total) \div (2 * total)

\* C25: the completion_percentage of a release and the completion_rate of
\* one component are round(100 * (total - open) / total), and 100 when
\* total is 0; the report is made without an error for empty input too.
C25_CompletionFormula ==
    /\ (pc = "done" /\ call.tool = "get_release_readiness") =>
          /\ ~result.isError
          /\ Metrics.completion_percentage
                = ExpectedCompletion(LengthOf(call.versionFetch),
                                     OpenLength(IssuesOf(call.openFetch)))
    /\ (pc = "done" /\ call.tool = "get_component_health") =>
          /\ ~result.isError
          /\ result.data.health_analysis.component_metrics.completion_rate
                = ExpectedCompletion(Len(Tagged),
                                     Cardinality({i \in 1..Len(Tagged) :
                                                     Tagged[i].status = "In Progress"}))

(***************************************************************************)
(* get_triage_summary: duplicate risk and next steps.                      *)
(***************************************************************************)
TriageSummaryMade == TriageCall /\ pc = "done" /\ ~result.isError
DuplicateAction == result.data.triage_recommendations[1].action

\* C26: risk_level is HIGH exactly when the duplicate action is
\* REVIEW_FOR_DUPLICATES; next_steps holds, in this order, the duplicate
\* review (only for REVIEW_FOR_DUPLICATES), the assignment suggestion (only
\* for an unassigned issue with expert data), the status transition (only
\* for status 'New' or 'To Do') and the tracking reminder, which is always
\* there and always last.
C26_RiskAndNextSteps ==
    TriageSummaryMade =>
        LET overview == result.data.issue_overview
            steps == result.data.next_steps
            review == DuplicateAction = "REVIEW_FOR_DUPLICATES"
            suggest == overview.assignee = "Unassigned" /\ result.data.has_assignment_analysis
            move == overview.status \in {"New", "To Do"}
            at(step) == CHOOSE i \in 1..Len(steps) : steps[i] = step
            has(step) == \E i \in 1..Len(steps) : steps[i] = step
        IN /\ result.data.duplicate_risk.risk_level = "HIGH" <=> review
           /\ result.data.duplicate_risk.risk_level \in {"HIGH", "LOW"}
           /\ has("Review potential duplicate") <=> review
           /\ has("Consider assigning to component expert") <=> suggest
           /\ has("Move to In Progress and begin investigation") <=> move
           /\ steps[Len(steps)] = "Add any missing components or labels for better tracking"
           /\ \A i, j \in 1..Len(steps) : i < j => steps[i] # steps[j]
           /\ review => at("Review potential duplicate") = 1
           /\ (suggest /\ move) =>
                 at("Consider assigning to component expert")
                    < at("Move to In Progress and begin investigation")
           /\ Len(steps) = 1 + (IF review THEN 1 ELSE 0) + (IF suggest THEN 1 ELSE 0)
                             + (IF move THEN 1 ELSE 0)

\* An unassigned issue in status 'To Do' with a component and a likely
\* duplicate: all four steps.
C26_Witness ==
    /\ TriageSummaryMade
    /\ result.data.issue_overview.status = "To Do"
    /\ result.data.duplicate_risk.risk_level = "HIGH"
    /\ Len(result.data.next_steps) = 4

(***************************************************************************)
(* get_component_experts.                                                  *)
(***************************************************************************)
ComponentIssueRecords ==
    [assignee : {NoField, "alice", "bob"}, status : {"Done", "Closed", "Open"}]
ComponentIssueFetches ==
    FailedFetches \cup {FetchOk(IssueList(issues)) :
                           issues \in SeqsUpTo(ComponentIssueRecords, MaxExpertIssues)}

GetComponentExperts ==
    /\ pc = "ready"
    /\ \E component \in {"ui", "api"}, expertFetch \in ComponentIssueFetches :
          /\ call' = [tool |-> "get_component_experts", component |-> component,
                      expertFetch |-> expertFetch]
          /\ result' = getComponentExperts(component, expertFetch)
    /\ pc' = "done"
    /\ UNCHANGED <<config, stages, locals>>

NextExperts == GetComponentExperts \/ Return
SpecExperts == Init /\ [][NextExperts]_vars

(***************************************************************************)
(* The server over all its tools.                                          *)
(***************************************************************************)
\* The configuration read by the constructor: the default project, the
\* configured boards and the installation (global jcli, or a virtual
\* environment with its path and working directory).
ServerConfigs ==
    {[defaultProject |-> "FDP", configuredBoards |-> <<>>,
      useGlobalJcli |-> TRUE, venvPath |-> NoField, workingDir |-> NoField],
     [defaultProject |-> "FDP", configuredBoards |-> <<bOps, bTeamAlpha>>,
      useGlobalJcli |-> FALSE, venvPath |-> "/opt/jcli/venv", workingDir |-> "/opt/jcli"]}

InitServer ==
    /\ config \in ServerConfigs
    /\ pc = "ready"
    /\ call = NoCall
    /\ result = NoResult
    /\ stages = <<>>
    /\ locals = NoLocals

NextServer ==
    \/ AnalyzeDuplicates
    \/ GetComponentExperts
    \/ GetComponentHealth
    \/ GetSingleComponentHealth
    \/ GetReleaseReadiness
    \/ GetSprintInsights
    \/ TriageIssueDetails \/ TriageDuplicates \/ TriageExperts
    \/ GetUserWorkload
    \/ Return
SpecServer == InitServer /\ [][NextServer]_vars

ExpertReportMade ==
    pc = "done" /\ call.tool = "get_component_experts" /\ ~result.isError

\* C28: the experts of the report are in non-increasing order of
\* total_issues, and the first of them is recommendations.primary_expert.
C28_ExpertsByTotalIssues ==
    ExpertReportMade =>
        LET experts == result.data.experts
        IN /\ \A i, j \in 1..Len(experts) :
                 i < j => experts[i].total_issues >= experts[j].total_issues
           /\ Len(experts) > 0 =>
                 experts[1].name = result.data.recommendations.primary_expert.name

(***************************************************************************)
(* Sprint insight: the counts add up.                                      *)
(***************************************************************************)
RECURSIVE SumCounts(_, _)
SumCounts(counts, keys) ==
    IF keys = {} THEN 0
    ELSE LET key == CHOOSE k \in keys : TRUE
         IN counts[key] + SumCounts(counts, keys \ {key})

\* C29: in every sprint insight done_issues + in_progress_issues +
\* todo_issues = total_issues = the sum of the by_status counts (the number
\* of issues of the sprint's columns), and unassigned_count plus the sum of
\* the by_assignee counts = total_issues.
C29_CountsAddUp ==
    SprintAnalysed =>
        LET analysis == IssueAnalysis
            velocity == Velocity
        IN /\ velocity.done_issues + velocity.in_progress_issues + velocity.todo_issues
                 = analysis.total_issues
           /\ analysis.total_issues
                 = SumSeq([k \in 1..Len(analysis.by_status) |-> analysis.by_status[k].count])
           /\ analysis.total_issues = InputTotal
           /\ analysis.unassigned_count
                 + SumCounts(analysis.by_assignee, DOMAIN analysis.by_assignee)
                 = analysis.total_issues

\* A sprint with done and other columns, with issues assigned by name,
\* issues without assignee and issues given as keys only.
C29_Witness ==
    /\ SprintAnalysed
    /\ Velocity.done_issues > 0
    /\ Velocity.done_issues < IssueAnalysis.total_issues
    /\ DOMAIN IssueAnalysis.by_assignee # {}
    /\ IssueAnalysis.unassigned_count > 1

(***************************************************************************)
(* get_user_workload on answers long enough for one user to hold more than *)
(* five issues: the assigned issues come as two runs of equal issues.      *)
(***************************************************************************)
MaxTeamRun == 6      \* issues of one kind in the second run
TeamIssues ==
    [assignee : {NoField, uAlice, uBob},
     status : {"To Do", "In Progress", "In Review", "Done", "Closed"},
     priority : {"High"}, ageDays : {10, 90}]

GetTeamWorkload ==
    /\ pc = "ready"
    /\ \E a \in TeamIssues, b \in TeamIssues, i \in 0..MaxRun, j \in 0..MaxTeamRun :
          LET issues == Copies(a, i) \o Copies(b, j) IN
          /\ call' = [tool |-> "get_user_workload", user |-> NullText,
                      assignedFetch |-> FetchOk(IssueList(issues))]
          /\ result' = getUserWorkload(NullText, FetchOk(IssueList(issues)),
                                       FetchOk(IssuesOfLength(0)))
    /\ pc' = "done"
    /\ UNCHANGED <<config, stages, locals>>

NextTeam == GetTeamWorkload \/ GetUserWorkload \/ Return
SpecTeam == Init /\ [][NextTeam]_vars

AssignedTo(name) ==
    LET issues == IssuesOf(call.assignedFetch)
    IN {i \in 1..Len(issues) :
           IF issues[i].assignee = NoField THEN FALSE ELSE issues[i].assignee = name}

\* C30: for every user of a workload report done + in_progress + open is
\* total_assigned and at least 1, overdue is at most in_progress + open (it
\* counts the user's issues older than 60 days whose status has neither
\* "done" nor "closed"), recent_activity has at most 5 entries, and the users
\* come by non-increasing total_assigned.
C30_UserCounts ==
    WorkloadReportMade =>
        LET users == result.data.workload_analysis.users
            issues == IssuesOf(call.assignedFetch)
        IN /\ \A i \in 1..Len(users) :
                 LET u == users[i]
                     mine == AssignedTo(u.name)
                 IN /\ u.done + u.in_progress + u.open = u.total_assigned
                    /\ u.total_assigned >= 1
                    /\ u.total_assigned = Cardinality(mine)
                    /\ u.overdue <= u.in_progress + u.open
                    /\ u.overdue =
                           Cardinality({k \in mine :
                               /\ issues[k].ageDays > 60
                               /\ issues[k].status \notin {"Done", "Closed"}})
                    /\ Len(u.recent_activity) <= 5
                    /\ Len(u.recent_activity) <= u.total_assigned
           /\ \A i \in 1..Len(users), j \in 1..Len(users) :
                 i < j => users[i].total_assigned >= users[j].total_assigned

\* A user with six issues, all of them overdue, whose recent_activity was
\* cut to five, listed before the user whose issues came first in the answer.
C30_Witness ==
    /\ WorkloadReportMade
    /\ LET users == result.data.workload_analysis.users
           issues == IssuesOf(call.assignedFetch)
       IN /\ Len(users) = 2
          /\ users[1].total_assigned > 5
          /\ Len(users[1].recent_activity) = 5
          /\ users[1].overdue = users[1].in_progress
          /\ users[1].overdue > 0
          /\ users[2].done = users[2].total_assigned
          /\ issues[1].assignee = users[2].name

====
